---- MODULE Spec2Model ----
(***************************************************************************)
(* A model of the provenance matching engine of verify-provenance:         *)
(*   src/src/check.py   layer1_find_candidates, layer2_validate_candidate, *)
(*                      find_matches, check_diff                           *)
(*   src/src/common.py  normalize_timestamp, normalize_diff,               *)
(*                      normalize_identifier, normalize_branding_terms,    *)
(*                      filter_branding_changes, is_infrastructure_file,   *)
(*                      hamming_distance, compute_simhash_similarity       *)
(*                                                                         *)
(* Conventions.                                                            *)
(*  - A Python str is a sequence of one-character strings.                 *)
(*  - Python's None is the record None; a value that may be None is a      *)
(*    record too (a patch id is [id |-> ...], a deep similarity is         *)
(*    [value |-> ...]).                                                    *)
(*  - A 64-bit simhash is the set of its 1-bit positions (a subset of      *)
(*    0..63), so that a xor b is the symmetric difference.                 *)
(*  - A similarity is an integer in units of 1/6400: 1.0 is 6400, a        *)
(*    simhash similarity 1 - d/64 is (64 - d) * 100, and a percentage p    *)
(*    (0.80 is 80) is p * 64.  Every comparison of the code between two    *)
(*    similarities is then a comparison of integers.                       *)
(***************************************************************************)
EXTENDS Integers, Sequences, FiniteSets, TLC

VARIABLES
    pc,            \* the operation the state belongs to and its position
    fingerprint,   \* check.py: the query Fingerprint {simhash64, patch_id, files}
    db,            \* [pr |-> <<entry...>>, commit |-> <<entry...>>] in insertion order
    date,          \* the date handed to the candidate search (a timestamp or None)
    ignore_date,   \* the ignore_date flag
    max_report,    \* the max_report argument
    diff_files,    \* TRUE iff the diff_files argument is a non-empty map
    deep,          \* the host: key |-> outcome of layer 2 on that candidate
    runs,          \* threshold |-> what the run at that threshold returned, or None
    l1,            \* db_type |-> what layer1_find_candidates returned, or None
    text,          \* the input of a text operation (normalizer, filter)
    branding_terms, \* common.py:308: the set branding_terms in its iteration order
    out,           \* the output of a text operation, or None
    host,          \* what the outside answers: the PR listing, the repository, the responses
    prs,           \* refresh_prs.py: the dict prs in memory, key |-> record
    commits,       \* bootstrap_commits.py: the dict commits in memory, key |-> record
    loaded,        \* the dict load_db returned at the start of the ingest run
    written,       \* the database files the run has written, oldest first
    run            \* the local state of the running procedure

vars == <<pc, fingerprint, db, date, ignore_date, max_report, diff_files, deep,
          runs, l1, text, branding_terms, out, host, prs, commits, loaded, written, run>>

inputVars == <<fingerprint, db, date, ignore_date, max_report, diff_files, deep>>
textVars == <<text, branding_terms, out>>
ingestVars == <<host, prs, commits, loaded, written, run>>

\* None: a record, so that it compares (unequal) with every record value
None == [none |-> TRUE]

\* the state of the ingest variables while no ingest run is modelled
NoIngest ==
    /\ host = None
    /\ prs = <<>>
    /\ commits = <<>>
    /\ loaded = <<>>
    /\ written = <<>>
    /\ run = None

(***************************************************************************)
(* Strings                                                                 *)
(***************************************************************************)

\* str.startswith(p)
StartsWith(s, p) ==
    /\ Len(p) <= Len(s)
    /\ \A i \in 1..Len(p) : s[i] = p[i]

\* p in s (substring test)
Contains(s, p) ==
    \E k \in 0..(Len(s) - Len(p)) : \A i \in 1..Len(p) : s[k + i] = p[i]

\* The code points of the characters a timestamp is written with.
Ord(c) ==
    CASE c = "+" -> 43 [] c = "-" -> 45 [] c = "." -> 46
      [] c = "0" -> 48 [] c = "1" -> 49 [] c = "2" -> 50 [] c = "3" -> 51
      [] c = "4" -> 52 [] c = "5" -> 53 [] c = "6" -> 54 [] c = "7" -> 55
      [] c = "8" -> 56 [] c = "9" -> 57 [] c = ":" -> 58
      [] c = "T" -> 84 [] c = "Z" -> 90

\* Python's a > b on str: lexicographic by code point, a proper prefix is smaller.
RECURSIVE StrGreater(_, _)
StrGreater(a, b) ==
    IF a = <<>> THEN FALSE
    ELSE IF b = <<>> THEN TRUE
    ELSE IF Ord(Head(a)) # Ord(Head(b)) THEN Ord(Head(a)) > Ord(Head(b))
    ELSE StrGreater(Tail(a), Tail(b))

(***************************************************************************)
(* Timestamps.  A written ISO-8601 timestamp of the month is the record    *)
(* [day, hour, frac, zone]: 2024-05-<day>T<hour>:00:00[.<frac>]<zone>,     *)
(* frac in microseconds (0: no fractional part is written), zone "Z" or    *)
(* the written UTC offset ("+02:00").                                      *)
(***************************************************************************)

Digit(n) ==
    CASE n = 0 -> "0" [] n = 1 -> "1" [] n = 2 -> "2" [] n = 3 -> "3"
      [] n = 4 -> "4" [] n = 5 -> "5" [] n = 6 -> "6" [] n = 7 -> "7"
      [] n = 8 -> "8" [] n = 9 -> "9"

\* n written with w digits
RECURSIVE Digits(_, _)
Digits(n, w) ==
    IF w = 0 THEN <<>> ELSE Append(Digits(n \div 10, w - 1), Digit(n % 10))

\* datetime.isoformat().replace("+00:00", "Z") of a UTC time; a timestamp that
\* ends with "Z" is written the same way.
IsoZ(ts) ==
    IF "bad" \in DOMAIN ts THEN ts.bad ELSE
    <<"2", "0", "2", "4", "-", "0", "5", "-">> \o Digits(ts.day, 2) \o <<"T">>
    \o Digits(ts.hour, 2) \o <<":", "0", "0", ":", "0", "0">>
    \o (IF ts.frac = 0 THEN <<>> ELSE <<".">> \o Digits(ts.frac, 6)) \o <<"Z">>

\* the hours of a written UTC offset
Offset(zone) ==
    CASE zone = "Z" -> 0
      [] zone = "+00:00" -> 0
      [] zone = "+02:00" -> 2
      [] zone = "-05:00" -> 0 - 5

\* datetime.fromisoformat(timestamp).astimezone(timezone.utc)
AsUtc(ts) ==
    LET h == ts.day * 24 + ts.hour - Offset(ts.zone)
    IN  [day |-> h \div 24, hour |-> h % 24, frac |-> ts.frac, zone |-> "Z"]

\* the exception of line 182
ValueError == [error |-> "ValueError"]

\* a text that is no timestamp is the record [bad |-> text]: it is returned
\* as it is when it ends with "Z" (line 175), and fromisoformat raises
\* otherwise (lines 180-182)
normalize_timestamp(timestamp) ==
    IF timestamp = None THEN timestamp
    ELSE IF "bad" \in DOMAIN timestamp
    THEN IF timestamp.bad[Len(timestamp.bad)] = "Z" THEN timestamp ELSE ValueError
    ELSE IF timestamp.zone = "Z" THEN timestamp
    ELSE AsUtc(timestamp)

\* entry_ts > target_ts, a comparison of two str
TsGreater(a, b) == StrGreater(IsoZ(a), IsoZ(b))

\* The instant a written timestamp denotes, in microseconds of the month.
Instant(ts) ==
    (ts.day * 24 + ts.hour - Offset(ts.zone)) * 1000000
    + ts.frac

(***************************************************************************)
(* Simhash similarity                                                      *)
(***************************************************************************)

\* popcount(a ^ b)
hamming_distance(a, b) == Cardinality((a \ b) \cup (b \ a))

\* 1.0 - distance / 64.0, in units of 1/6400
compute_simhash_similarity(simhash_a, simhash_b) ==
    (64 - hamming_distance(simhash_a, simhash_b)) * 100

\* a percentage in units of 1/6400
Pct(p) == p * 64

LAYER1_SIMHASH_BASE_THRESHOLD == 80
LAYER1_SIMHASH_WITH_PATCHID == 70

Max(a, b) == IF a >= b THEN a ELSE b

(***************************************************************************)
(* Layer 1: check.py layer1_find_candidates                                *)
(***************************************************************************)

infrastructure_patterns ==
    { <<"d", "e", "p", "s", "/">>, <<".", "g", "i", "t", "h", "u", "b", "/">> }

is_infrastructure_file(filename) ==
    \E p \in infrastructure_patterns : Contains(filename, p)

\* the gate closing as soon as one file is an infrastructure file
GateOnAnyFile(files) ==
    \E f \in DOMAIN files : is_infrastructure_file(f)

\* not any(not is_infrastructure_file(f, config) for f in files)
InfrastructureGate(files) ==
    ~ \E f \in DOMAIN files : ~ is_infrastructure_file(f)

\* bool(a and b and a == b) on two patch ids
PatchIdMatch(a, b) == a # None /\ b # None /\ a = b

\* entry.get("created_at") if db_type == "pr" else entry.get("date")
EntryTimestamp(entry, dbt) == IF dbt = "pr" THEN entry.created_at ELSE entry.date

\* lines 25-28: the record is skipped by the date filter
DateSkips(entry, dbt, target_ts) ==
    /\ target_ts # None
    /\ LET entry_ts == normalize_timestamp(EntryTimestamp(entry, dbt))
       IN  entry_ts # None /\ TsGreater(entry_ts, target_ts)

\* a shared path recorded on its simhash alone
FileMatchesBySimhash(v_fp, r_fp) ==
    compute_simhash_similarity(v_fp.simhash64, r_fp.simhash64)
        >= Pct(LAYER1_SIMHASH_BASE_THRESHOLD)

\* line 48: a shared path is recorded in matched_files
FileMatches(v_fp, r_fp) ==
    LET s == compute_simhash_similarity(v_fp.simhash64, r_fp.simhash64)
        fp_id_match == PatchIdMatch(v_fp.patch_id, r_fp.patch_id)
    IN  \/ s >= Pct(LAYER1_SIMHASH_BASE_THRESHOLD)
        \/ (s >= Pct(LAYER1_SIMHASH_WITH_PATCHID) /\ fp_id_match)

\* the maximum of a finite set of naturals, 0 for the empty set (best_sim = 0.0)
SetMax(S) == IF S = {} THEN 0 ELSE CHOOSE m \in S : \A x \in S : x <= m

\* lines 30-57: the candidate the record yields, or None
Candidate(fp, entry) ==
    LET files == fp.files
        ref_files == entry.files
        api_id_match == PatchIdMatch(fp.patch_id, entry.patch_id)
        overall_sim == compute_simhash_similarity(fp.simhash64, entry.simhash64)
    IN  IF DOMAIN ref_files = {}
        THEN IF \/ overall_sim >= Pct(LAYER1_SIMHASH_BASE_THRESHOLD)
                \/ (overall_sim >= Pct(LAYER1_SIMHASH_WITH_PATCHID) /\ api_id_match)
             THEN [key |-> entry.key, entry |-> entry, sim |-> overall_sim,
                   patch_id_match |-> api_id_match, matched_files |-> {}]
             ELSE None
        ELSE LET shared == { f \in DOMAIN files : f \in DOMAIN ref_files }
                 matched == { f \in shared : FileMatches(files[f], ref_files[f]) }
                 matched_files ==
                     { <<f, compute_simhash_similarity(files[f].simhash64,
                                                       ref_files[f].simhash64),
                         PatchIdMatch(files[f].patch_id, ref_files[f].patch_id)>> :
                       f \in matched }
                 best_sim == Max(SetMax({ m[2] : m \in matched_files }), overall_sim)
                 any_patch_id_match ==
                     api_id_match \/ \E m \in matched_files : m[3]
             IN  IF \/ best_sim >= Pct(LAYER1_SIMHASH_BASE_THRESHOLD)
                    \/ (best_sim >= Pct(LAYER1_SIMHASH_WITH_PATCHID)
                        /\ any_patch_id_match)
                    \/ matched_files # {}
                 THEN [key |-> entry.key, entry |-> entry, sim |-> best_sim,
                       patch_id_match |-> any_patch_id_match,
                       matched_files |-> matched_files]
                 ELSE None

\* lines 24-57: the candidates in the order the records are iterated
RECURSIVE ScanEntries(_, _, _, _)
ScanEntries(fp, items, dbt, target_ts) ==
    IF items = <<>> THEN <<>>
    ELSE LET entry == Head(items)
             rest == ScanEntries(fp, Tail(items), dbt, target_ts)
             c == Candidate(fp, entry)
         IN  IF DateSkips(entry, dbt, target_ts) \/ c = None
             THEN rest
             ELSE <<c>> \o rest

\* an unstable sort: c placed before the elements of equal sim
RECURSIVE InsertUnstable(_, _)
InsertUnstable(sorted, c) ==
    IF sorted = <<>> THEN <<c>>
    ELSE IF Head(sorted).sim > c.sim
         THEN <<Head(sorted)>> \o InsertUnstable(Tail(sorted), c)
         ELSE <<c>> \o sorted

\* c placed in a list sorted by sim descending, after every element whose
\* sim is not smaller (list.sort is stable, also with reverse=True)
RECURSIVE InsertSorted(_, _)
InsertSorted(sorted, c) ==
    IF sorted = <<>> THEN <<c>>
    ELSE IF Head(sorted).sim >= c.sim
         THEN <<Head(sorted)>> \o InsertSorted(Tail(sorted), c)
         ELSE <<c>> \o sorted

\* candidates.sort(key=lambda x: x["sim"], reverse=True)
RECURSIVE SortBySimDesc(_)
SortBySimDesc(cands) ==
    IF cands = <<>> THEN <<>>
    ELSE InsertSorted(SortBySimDesc(SubSeq(cands, 1, Len(cands) - 1)),
                      cands[Len(cands)])

\* date and not ignore_date: the cutoff in effect
TargetTs(d, ign) == IF d # None /\ ~ ign THEN normalize_timestamp(d) ELSE None

layer1_find_candidates(fp, items, dbt, d, ign) ==
    IF InfrastructureGate(fp.files) THEN <<>>
    ELSE SortBySimDesc(ScanEntries(fp, items, dbt, TargetTs(d, ign)))

(***************************************************************************)
(* Layer 2 and find_matches: check.py lines 62-95                          *)
(***************************************************************************)

\* what a raised exception leaves in place of a value
Raised == [raised |-> TRUE]

\* lines 64-72, the try block: fetching or comparing the source diff of the
\* candidate raises, or yields the deep similarity (the host's answer for the
\* candidate is deep[key])
Layer2Try(candidate) ==
    IF deep[candidate.key].fails THEN Raised
    ELSE [value |-> deep[candidate.key].sim]

\* lines 63-75 without the except clause
Layer2Unguarded(candidate) == Layer2Try(candidate)

\* lines 63-75: except Exception: return None
layer2_validate_candidate(candidate) ==
    LET r == Layer2Try(candidate)
    IN  IF r = Raised THEN None ELSE r

\* cand.update({"deep_sim": ..., "method": ...})
Updated(cand, deep_sim, method) ==
    [key |-> cand.key, entry |-> cand.entry, sim |-> cand.sim,
     patch_id_match |-> cand.patch_id_match, matched_files |-> cand.matched_files,
     deep_sim |-> deep_sim, method |-> method]

\* line 90 with the comparison of the deep similarity turned around
RejectedInverted(deep_sim, cand, thr) ==
    \/ (deep_sim # None /\ deep_sim.value > Pct(thr))
    \/ (deep_sim = None /\ cand.sim < Pct(thr))

\* line 90: the candidate is dropped
Rejected(deep_sim, cand, thr) ==
    \/ (deep_sim # None /\ deep_sim.value < Pct(thr))
    \/ (deep_sim = None /\ cand.sim < Pct(thr))

\* what find_matches hands back: its list, or the exception that left it
Returned(res) == [raised |-> FALSE, results |-> res]
Propagated == [raised |-> TRUE, results |-> <<>>]

\* lines 83-94: the for loop from position i on
RECURSIVE MatchLoop(_, _, _, _, _, _)
MatchLoop(cands, i, res, thr, maxr, hasDiff) ==
    IF i > Len(cands) THEN Returned(res)
    ELSE IF ~ hasDiff
         THEN MatchLoop(cands, i + 1, Append(res, Updated(cands[i], None, "simhash")),
                        thr, maxr, hasDiff)
         ELSE LET deep_sim == layer2_validate_candidate(cands[i])
              IN  IF deep_sim = Raised THEN Propagated
                  ELSE IF Rejected(deep_sim, cands[i], thr)
                  THEN MatchLoop(cands, i + 1, res, thr, maxr, hasDiff)
                  ELSE LET kept == Append(res, Updated(cands[i], deep_sim,
                                       IF deep_sim # None THEN "simhash+deep"
                                                          ELSE "simhash"))
                       IN  IF Len(kept) >= maxr THEN Returned(kept)
                           ELSE MatchLoop(cands, i + 1, kept, thr, maxr, hasDiff)

Min(a, b) == IF a <= b THEN a ELSE b

\* candidates[:max_report * 2]
Top(cands, maxr) == SubSeq(cands, 1, Min(Len(cands), maxr * 2))

find_matches(fp, items, thr, maxr, dbt, d, hasDiff, ign) ==
    LET cands == layer1_find_candidates(fp, items, dbt, d, ign)
    IN  IF cands = <<>> THEN Returned(<<>>)
        ELSE MatchLoop(Top(cands, maxr), 1, <<>>, thr, maxr, hasDiff)

\* check.py lines 123-131: the findings of check_diff, PR matches first
RECURSIVE Findings(_, _)
Findings(ms, type) ==
    IF ms = <<>> THEN <<>>
    ELSE LET m == Head(ms)
         IN  <<[type |-> type, key |-> m.key,
                s |-> IF m.deep_sim # None THEN m.deep_sim.value ELSE m.sim,
                method |-> m.method]>> \o Findings(Tail(ms), type)

(***************************************************************************)
(* Inputs                                                                  *)
(***************************************************************************)

MaxDb == 3          \* records in the two databases together
MaxReport == 2      \* largest max_report
MaxL1Db == 2        \* records in the two databases of a candidate search
MaxFrags == 2       \* fragments in the suffix of an identifier
MaxTokens == 2      \* tokens of a change line that receives a comment
MaxLines == 6       \* lines of a diff handed to the branding filter
MaxMoved == 12      \* lines a diff removes and adds again
MaxNew == 6         \* lines a diff only adds
MaxDeepLines == 2   \* lines of each diff of a deep comparison
MaxPrs == 3         \* pull requests the host lists
PER_PAGE == 2       \* refresh_prs.py:28 (100), scaled to the listings modelled
MaxShas == 2        \* commits git rev-list enumerates
MaxResponses == 4   \* responses the host has ready for one github_request
MaxHashBits == 4    \* bit positions the compared simhashes are built from
MaxFileDb == 1      \* records with a file map in a candidate search
MaxDateLines == 2   \* lines of a diff that can carry a date
MaxGateLines == 6   \* lines a diff handed to check_diff adds
MaxChangeLines == 7 \* change lines of a diff with a context line

SrcA == <<"s", "r", "c", "/", "a", ".", "c">>
SrcB == <<"s", "r", "c", "/", "b", ".", "c">>
DepsX == <<"d", "e", "p", "s", "/", "x", ".", "c">>
GithubCi == <<".", "g", "i", "t", "h", "u", "b", "/", "c", "i">>

\* the simhash whose k low bits are set: Low(a) and Low(b) differ in |a - b| bits
Low(k) == 0..(k - 1)

NoFiles == [f \in {} |-> None]
Ts(d, h, f, z) == [day |-> d, hour |-> h, frac |-> f, zone |-> z]
Noon == Ts(10, 12, 0, "Z")

\* a PR record (created_at) or a commit record (date) under key k
Record(k, isPr, ts, simhash, pid, files) ==
    [key |-> k, created_at |-> IF isPr THEN ts ELSE None,
     date |-> IF isPr THEN None ELSE ts,
     simhash64 |-> simhash, patch_id |-> pid, files |-> files]

Thresholds == {85, 90}
NoRuns == [t \in Thresholds |-> None]
NoL1 == [t \in {"pr", "commit"} |-> None]

\* the query of the matching runs: one source file, no patch id
CodeQuery ==
    [simhash64 |-> Low(0), patch_id |-> None,
     files |-> [f \in {SrcA} |-> [simhash64 |-> Low(0), patch_id |-> None]]]

\* layer-1 distances and layer-2 outcomes of the records of a matching run:
\* similarities 1.0 and 0.875; the fetch fails, or the deep similarity is
\* below 0.85, between 0.85 and 0.90, or above 0.90
MatchKinds ==
    { [d |-> d, fails |-> TRUE, sim |-> 0] : d \in {0, 8} }
    \cup { [d |-> d, fails |-> FALSE, sim |-> v] : d \in {0, 8}, v \in {5300, 5600, 6000} }

\* n records, the first k of them in the PR database, the others in the commit one
Databases(n, k, rec(_, _)) ==
    [pr |-> [i \in 1..k |-> rec(i, TRUE)],
     commit |-> [i \in 1..(n - k) |-> rec(k + i, FALSE)]]

InitMatch ==
    /\ pc = "match"
    /\ NoIngest
    /\ fingerprint = CodeQuery
    /\ date = None
    /\ ignore_date = FALSE
    /\ max_report \in 1..MaxReport
    /\ diff_files \in BOOLEAN
    /\ \E n \in 0..MaxDb : \E k \in 0..n : \E kinds \in [1..n -> MatchKinds] :
          /\ db = Databases(n, k,
                    LAMBDA i, isPr : Record(i, isPr, Noon, Low(kinds[i].d), None, NoFiles))
          /\ deep = [i \in 1..n |-> [fails |-> kinds[i].fails, sim |-> kinds[i].sim]]
    /\ runs = NoRuns
    /\ l1 = NoL1
    /\ text = <<>>
    /\ branding_terms = <<>>
    /\ out = None

(***************************************************************************)
(* The matching runs                                                       *)
(***************************************************************************)

Matches(t, dbt) ==
    find_matches(fingerprint, db[dbt], t, max_report, dbt, date, diff_files, ignore_date)

\* what a run leaves: the two lists of matches and the findings, or the
\* exception that ended it
Run(pr, commit, findings) ==
    IF pr.raised \/ commit.raised
    THEN [raised |-> TRUE, pr |-> <<>>, commit |-> <<>>, findings |-> <<>>]
    ELSE [raised |-> FALSE, pr |-> pr.results, commit |-> commit.results,
          findings |-> findings]

\* check_diff lines 120-133 at threshold t: reached only with a non-empty
\* diff_files (line 109 returns for fewer than MIN_LINES changed lines)
CheckDiff(t) ==
    /\ pc = "match"
    /\ diff_files
    /\ runs[t] = None
    /\ LET pr_matches == Matches(t, "pr")
           commit_matches == Matches(t, "commit")
       IN  runs' = [runs EXCEPT ![t] =
                       Run(pr_matches, commit_matches,
                           Findings(pr_matches.results, "pr")
                           \o Findings(commit_matches.results, "commit"))]
    /\ UNCHANGED <<pc, inputVars, l1, textVars, ingestVars>>

\* find_matches called without per-file diffs (diff_files=None, its default),
\* on each database, at threshold t
FindMatchesNoDiffs(t) ==
    /\ pc = "match"
    /\ ~ diff_files
    /\ runs[t] = None
    /\ runs' = [runs EXCEPT ![t] = Run(Matches(t, "pr"), Matches(t, "commit"), <<>>)]
    /\ UNCHANGED <<pc, inputVars, l1, textVars, ingestVars>>

Init == InitMatch

Next ==
    \/ \E t \in Thresholds : CheckDiff(t)
    \/ \E t \in Thresholds : FindMatchesNoDiffs(t)

Spec == Init /\ [][Next]_vars

(***************************************************************************)
(* The candidate search on its own                                         *)
(***************************************************************************)

PatchP == [id |-> "p"]

\* the queries of a candidate search: no file, a source file, infrastructure
\* files only, a source file and an infrastructure file
SearchQueries ==
    { [simhash64 |-> Low(0), patch_id |-> PatchP,
       files |-> [f \in F |-> [simhash64 |-> Low(0), patch_id |-> None]]] :
      F \in { {}, {SrcA}, {DepsX, GithubCi}, {SrcA, DepsX} } }

\* the dates of a query: none, noon UTC, noon UTC written with offset +02:00
SearchDates == { None, Noon, Ts(10, 14, 0, "+02:00") }

\* the records of a candidate search: simhash and patch id of the query, with
\* no timestamp, one before noon, at noon, half a second after noon, after
\* noon (written +02:00), before noon (written +02:00), the next day; and a
\* record 20 bits away from the query
SearchKinds ==
    { [d |-> 0, ts |-> ts] :
        ts \in { None, Ts(10, 11, 0, "Z"), Noon, Ts(10, 12, 500000, "Z"),
                 Ts(10, 15, 0, "+02:00"), Ts(10, 13, 0, "+02:00"), Ts(11, 1, 0, "Z") } }
    \cup { [d |-> 20, ts |-> Ts(10, 11, 0, "Z")] }

InitSearch ==
    /\ pc = "search"
    /\ NoIngest
    /\ fingerprint \in SearchQueries
    /\ date \in SearchDates
    /\ ignore_date \in BOOLEAN
    /\ max_report = 1
    /\ diff_files = FALSE
    /\ \E n \in 0..MaxL1Db : \E k \in 0..n : \E kinds \in [1..n -> SearchKinds] :
          /\ db = Databases(n, k,
                    LAMBDA i, isPr : Record(i, isPr, kinds[i].ts, Low(kinds[i].d),
                                            PatchP, NoFiles))
          /\ deep = [i \in 1..n |-> [fails |-> TRUE, sim |-> 0]]
    /\ runs = NoRuns
    /\ l1 = NoL1
    /\ text = <<>>
    /\ branding_terms = <<>>
    /\ out = None

\* layer1_find_candidates on the database of type dbt
Layer1Find(dbt) ==
    /\ pc = "search"
    /\ l1[dbt] = None
    /\ l1' = [l1 EXCEPT ![dbt] =
                 [candidates |->
                     layer1_find_candidates(fingerprint, db[dbt], dbt, date, ignore_date)]]
    /\ UNCHANGED <<pc, inputVars, runs, textVars, ingestVars>>

NextSearch == \E dbt \in {"pr", "commit"} : Layer1Find(dbt)

SpecSearch == InitSearch /\ [][NextSearch]_vars

(***************************************************************************)
(* Properties of the matching runs                                         *)
(***************************************************************************)

DbTypes == {"pr", "commit"}
Done(t) == runs[t] # None
KeysOf(ms) == { ms[i].key : i \in 1..Len(ms) }

\* the candidates the for loop of find_matches iterates over
Ranking(dbt) ==
    Top(layer1_find_candidates(fingerprint, db[dbt], dbt, date, ignore_date), max_report)

\* C1 as claimed: for thresholds t1 <= t2 and the same query, databases,
\* max_report and layer-2 outcomes, every match find_matches reports at t2 is
\* also reported at t1.
C1_ThresholdMonotone ==
    \A t1, t2 \in Thresholds :
        (t1 <= t2 /\ Done(t1) /\ Done(t2)) =>
            \A dbt \in DbTypes : KeysOf(runs[t2][dbt]) \subseteq KeysOf(runs[t1][dbt])

\* C1 as amended: for t1 <= t2 the run at t2 reports no more matches and no
\* more findings than the run at t1, and a match reported at t2 is missing at
\* t1 only when the run at t1 already returned max_report matches.
C1_ThresholdMonotoneCount ==
    \A t1, t2 \in Thresholds :
        (t1 <= t2 /\ Done(t1) /\ Done(t2)) =>
            /\ Len(runs[t2].findings) <= Len(runs[t1].findings)
            /\ \A dbt \in DbTypes :
                  /\ Len(runs[t2][dbt]) <= Len(runs[t1][dbt])
                  /\ (KeysOf(runs[t2][dbt]) \subseteq KeysOf(runs[t1][dbt])
                      \/ Len(runs[t1][dbt]) = max_report)

\* both runs are done with per-file diffs, and raising the threshold changed
\* the matches of a database without emptying them
C1_Witness ==
    \E t1, t2 \in Thresholds :
        /\ t1 < t2 /\ Done(t1) /\ Done(t2) /\ diff_files
        /\ \E dbt \in DbTypes :
              /\ KeysOf(runs[t2][dbt]) # KeysOf(runs[t1][dbt])
              /\ runs[t2][dbt] # <<>>

\* C2: every match find_matches returns satisfies the acceptance rule: its
\* deep similarity was computed and is >= threshold, or none is available and
\* its layer-1 similarity is >= threshold (also without per-file diffs).
C2_AcceptanceRule ==
    \A t \in Thresholds : Done(t) =>
        \A dbt \in DbTypes : \A i \in 1..Len(runs[t][dbt]) :
            LET m == runs[t][dbt][i]
            IN  \/ (m.deep_sim # None /\ m.deep_sim.value >= Pct(t))
                \/ (m.deep_sim = None /\ m.sim >= Pct(t))

\* C4: find_matches returns at most max_report matches for each database,
\* with or without per-file diffs.
C4_AtMostMaxReport ==
    \A t \in Thresholds : Done(t) =>
        \A dbt \in DbTypes : Len(runs[t][dbt]) <= max_report

\* position of the record of key k in the database (its insertion order)
Position(dbt, k) == CHOOSE i \in 1..Len(db[dbt]) : db[dbt][i].key = k

\* non-increasing layer-1 similarity, equal similarities in insertion order
Ranked(ms, dbt) ==
    \A i, j \in 1..Len(ms) : i < j =>
        \/ ms[i].sim > ms[j].sim
        \/ (ms[i].sim = ms[j].sim /\ Position(dbt, ms[i].key) < Position(dbt, ms[j].key))

\* C5: the findings of check_diff are the PR findings followed by the commit
\* findings, each group in non-increasing layer-1 similarity with equal
\* similarities in database insertion order, whatever layer 2 rejected.
C5_FindingsOrdered ==
    \A t \in Thresholds : (Done(t) /\ ~ runs[t].raised) =>
        /\ Ranked(runs[t].pr, "pr")
        /\ Ranked(runs[t].commit, "commit")
        /\ diff_files =>
              LET f == runs[t].findings
                  np == Len(runs[t].pr)
              IN  /\ Len(f) = np + Len(runs[t].commit)
                  /\ \A i \in 1..Len(f) :
                        IF i <= np
                        THEN f[i].type = "pr" /\ f[i].key = runs[t].pr[i].key
                        ELSE f[i].type = "commit" /\ f[i].key = runs[t].commit[i - np].key

\* check_diff emitted two PR findings of equal layer-1 similarity, in
\* insertion order, followed by a commit finding
C5_Witness ==
    \E t \in Thresholds :
        /\ Done(t) /\ diff_files
        /\ Len(runs[t].pr) = 2 /\ runs[t].pr[1].sim = runs[t].pr[2].sim
        /\ Len(runs[t].commit) >= 1
        /\ Len(runs[t].findings) = 3

Fails(c) == deep[c.key].fails

\* C6: a failure inside layer2_validate_candidate never leaves find_matches:
\* the candidate is judged on its layer-1 similarity alone (kept only if it is
\* >= threshold, then with method "simhash" and no deep similarity) and the
\* candidates after it are still processed.
C6_FailureContained ==
    \A t \in Thresholds : (Done(t) /\ diff_files) =>
        /\ ~ runs[t].raised
        /\ \A dbt \in DbTypes :
              LET cands == Ranking(dbt)
                  res == runs[t][dbt]
                  full == Len(res) = max_report
              IN  /\ \A i \in 1..Len(res) : Fails(res[i]) =>
                        /\ res[i].deep_sim = None
                        /\ res[i].method = "simhash"
                        /\ res[i].sim >= Pct(t)
                  /\ \A i \in 1..Len(cands) : Fails(cands[i]) =>
                        /\ cands[i].sim < Pct(t) => cands[i].key \notin KeysOf(res)
                        /\ cands[i].sim >= Pct(t) => (cands[i].key \in KeysOf(res) \/ full)
                        /\ \A j \in (i + 1)..Len(cands) :
                              (~ Fails(cands[j]) /\ deep[cands[j].key].sim >= Pct(t))
                                  => (cands[j].key \in KeysOf(res) \/ full)

\* a run in which the fetch failed for the first candidate, which was dropped
\* on its layer-1 similarity, and a later candidate was accepted by layer 2
C6_Witness ==
    \E t \in Thresholds : \E dbt \in DbTypes :
        /\ Done(t) /\ diff_files
        /\ Len(Ranking(dbt)) >= 2
        /\ Fails(Ranking(dbt)[1])
        /\ Ranking(dbt)[1].key \notin KeysOf(runs[t][dbt])
        /\ \E i \in 1..Len(runs[t][dbt]) : runs[t][dbt][i].method = "simhash+deep"

(***************************************************************************)
(* Properties of the candidate search                                      *)
(***************************************************************************)

Searched(dbt) == l1[dbt] # None

\* C3: with a date cutoff T in effect (a date is given and ignore_date is
\* false) layer1_find_candidates returns no record whose timestamp is
\* chronologically later than T; with ignore_date no record is excluded for
\* its timestamp.
C3_DateCutoff ==
    \A dbt \in DbTypes : Searched(dbt) =>
        /\ (date # None /\ ~ ignore_date) =>
              \A i \in 1..Len(l1[dbt].candidates) :
                  LET ts == EntryTimestamp(l1[dbt].candidates[i].entry, dbt)
                  IN  ts = None \/ Instant(ts) <= Instant(date)
        /\ (ignore_date /\ ~ InfrastructureGate(fingerprint.files)) =>
              \A i \in 1..Len(db[dbt]) :
                  db[dbt][i].simhash64 = fingerprint.simhash64
                      => db[dbt][i].key \in KeysOf(l1[dbt].candidates)

\* every path of the query's file map contains an infrastructure pattern
AllInfrastructure(files) ==
    \A f \in DOMAIN files : \E p \in infrastructure_patterns : Contains(f, p)

\* C7: if every file path of the query contains a configured infrastructure
\* pattern, layer1_find_candidates returns no candidate whatever the database
\* holds; if a path contains none, the gate does not suppress the search (a
\* record with the simhash of the query that the date filter lets through is
\* returned).
C7_InfrastructureGate ==
    \A dbt \in DbTypes : Searched(dbt) =>
        IF AllInfrastructure(fingerprint.files)
        THEN l1[dbt].candidates = <<>>
        ELSE \A i \in 1..Len(db[dbt]) :
                (/\ db[dbt][i].simhash64 = fingerprint.simhash64
                 /\ ~ DateSkips(db[dbt][i], dbt, TargetTs(date, ignore_date)))
                    => db[dbt][i].key \in KeysOf(l1[dbt].candidates)

\* a search for a query of infrastructure files only, over a database holding
\* a record with the simhash and the patch id of the query and no cutoff in
\* effect, returned nothing
C7_Witness ==
    \E dbt \in DbTypes :
        /\ Searched(dbt)
        /\ DOMAIN fingerprint.files = {DepsX, GithubCi}
        /\ date = None
        /\ \E i \in 1..Len(db[dbt]) :
              /\ db[dbt][i].simhash64 = fingerprint.simhash64
              /\ db[dbt][i].patch_id = fingerprint.patch_id
        /\ l1[dbt].candidates = <<>>

(***************************************************************************)
(* common.py normalize_identifier                                          *)
(***************************************************************************)

Uppers == <<"A", "B", "C", "D", "E", "F", "G", "H", "I", "J", "K", "L", "M", "N", "O", "P", "Q", "R", "S", "T", "U", "V", "W", "X", "Y", "Z">>
Lowers == <<"a", "b", "c", "d", "e", "f", "g", "h", "i", "j", "k", "l", "m", "n", "o", "p", "q", "r", "s", "t", "u", "v", "w", "x", "y", "z">>

\* str.isupper() of one character
IsUpper(c) == \E i \in 1..26 : Uppers[i] = c

\* str.lower()
ToLower(c) == IF IsUpper(c) THEN Lowers[CHOOSE i \in 1..26 : Uppers[i] = c] ELSE c
Lower(s) == [i \in 1..Len(s) |-> ToLower(s[i])]

\* s[n:]
Drop(s, n) == SubSeq(s, n + 1, Len(s))

\* config: branding_pairs (Redis, Valkey), (KeyDB, Valkey); prefix_pairs (RM_, VM_)
Redis == <<"R", "e", "d", "i", "s">>
Valkey == <<"V", "a", "l", "k", "e", "y">>
KeyDB == <<"K", "e", "y", "D", "B">>
RM_ == <<"R", "M", "_">>
VM_ == <<"V", "M", "_">>
Module == <<"M", "o", "d", "u", "l", "e">>
branding_pairs == << <<Redis, Valkey>>, <<KeyDB, Valkey>> >>
prefix_pairs == << <<RM_, VM_>> >>

\* a list of pairs in the order the two nested loops visit its members
RECURSIVE Flat(_)
Flat(pairs) ==
    IF pairs = <<>> THEN <<>> ELSE <<pairs[1][1], pairs[1][2]>> \o Flat(Tail(pairs))

\* lines 288-292: the prefix pairs
RECURSIVE PrefixRule(_, _)
PrefixRule(identifier, prefixes) ==
    IF prefixes = <<>> THEN None
    ELSE LET prefix == prefixes[1]
         IN  IF StartsWith(identifier, prefix) \/ StartsWith(identifier, Lower(prefix))
             THEN [value |-> <<"M", "_">> \o Drop(identifier, Len(prefix))]
             ELSE PrefixRule(identifier, Tail(prefixes))

\* lines 295-301: the Module types of the brands
RECURSIVE ModuleRule(_, _)
ModuleRule(identifier, brands) ==
    IF brands = <<>> THEN None
    ELSE LET brand == brands[1]
         IN  IF StartsWith(identifier, brand \o Module)
             THEN [value |-> Module \o Drop(identifier, Len(brand) + 6)]
             ELSE IF StartsWith(identifier, Lower(brand) \o Module)
             THEN [value |-> Lower(Module) \o Drop(identifier, Len(brand) + 6)]
             ELSE ModuleRule(identifier, Tail(brands))

\* lines 306-310: the members of the set branding_terms
BrandingTerms == { Lower(b) : b \in {Redis, Valkey, KeyDB} }

\* lines 325-327: the term at 0-based position i passes both boundary tests
InfixAt(identifier, term, i) ==
    /\ Lower(SubSeq(identifier, i + 1, i + Len(term))) = term
    /\ (identifier[i] = "_" \/ IsUpper(identifier[i + 1]))
    /\ \/ i + Len(term) >= Len(identifier)
       \/ identifier[i + Len(term) + 1] = "_"
       \/ IsUpper(identifier[i + Len(term) + 1])

\* lines 329-332: the identifier without the term at position i
InfixRemoved(identifier, term, i) ==
    LET result == SubSeq(identifier, 1, i) \o Drop(identifier, i + Len(term))
        joined == IF i < Len(result) /\ result[i] = "_" /\ result[i + 1] = "_"
                  THEN SubSeq(result, 1, i) \o Drop(result, i + 1)
                  ELSE result
    IN  IF joined # <<>> THEN joined ELSE identifier

\* the loop over the branding terms without Pattern 1 (the prefix)
RECURSIVE TermLoopInfixOnly(_, _, _)
TermLoopInfixOnly(identifier, terms, k) ==
    IF k > Len(terms) THEN identifier
    ELSE
    LET term == terms[k]
        hits == { i \in 1..(Len(identifier) - Len(term) - 1) : InfixAt(identifier, term, i) }
    IN  IF hits # {}
        THEN InfixRemoved(identifier, term, CHOOSE i \in hits : \A j \in hits : i <= j)
        ELSE TermLoopInfixOnly(identifier, terms, k + 1)

\* lines 312-333: the loop over the branding terms, from the k-th term on
RECURSIVE TermLoop(_, _, _)
TermLoop(identifier, terms, k) ==
    IF k > Len(terms) THEN identifier
    ELSE
    LET term == terms[k]
        lower_id == Lower(identifier)
        remainder == Drop(identifier, Len(term))
        stripped == IF remainder[1] = "_" THEN Tail(remainder) ELSE remainder
        hits == { i \in 1..(Len(identifier) - Len(term) - 1) : InfixAt(identifier, term, i) }
    IN  IF StartsWith(lower_id, term) /\ remainder # <<>>
        THEN IF stripped # <<>> THEN stripped ELSE identifier
        ELSE IF StartsWith(lower_id, term \o <<"_">>)
        THEN Drop(identifier, Len(term) + 1)
        ELSE IF hits # {}
        THEN InfixRemoved(identifier, term, CHOOSE i \in hits : \A j \in hits : i <= j)
        ELSE TermLoop(identifier, terms, k + 1)

\* normalize_identifier(identifier, config), the set branding_terms iterated
\* in the order terms
normalize_identifier(identifier, terms) ==
    LET byPrefix == PrefixRule(identifier, Flat(prefix_pairs))
        byModule == ModuleRule(identifier, Flat(branding_pairs))
    IN  IF byPrefix # None THEN byPrefix.value
        ELSE IF byModule # None THEN byModule.value
        ELSE TermLoop(identifier, terms, 1)
(***************************************************************************)
(* The identifier normalizer on its own                                    *)
(***************************************************************************)

\* the state of the variables of the matching runs while a text operation runs
NoMatching ==
    /\ fingerprint = CodeQuery
    /\ db = [pr |-> <<>>, commit |-> <<>>]
    /\ date = None
    /\ ignore_date = FALSE
    /\ max_report = 1
    /\ diff_files = FALSE
    /\ deep = <<>>
    /\ runs = NoRuns
    /\ l1 = NoL1

matchingVars == <<inputVars, runs, l1>>

\* the heads an identifier starts with, by name
Heads == [Redis |-> Redis, Valkey |-> Valkey, KeyDB |-> KeyDB, RM_ |-> RM_, VM_ |-> VM_]
Brands == {"Redis", "Valkey", "KeyDB"}

\* the pieces a suffix is made of
Fragments ==
    { <<"_">>, <<"x">>, <<"L">>, <<"d", "b">>, Module, Redis, Lower(Valkey) }

RECURSIVE Concat(_)
Concat(ss) == IF ss = <<>> THEN <<>> ELSE ss[1] \o Concat(Tail(ss))

Suffixes == { Concat(fs) : fs \in UNION { [1..n -> Fragments] : n \in 0..MaxFrags } }

\* the orders a set of three terms can be iterated in
Orders(S) == { o \in [1..Cardinality(S) -> S] : \A t \in S : \E i \in DOMAIN o : o[i] = t }

InitNorm ==
    /\ pc = "normalize"
    /\ NoMatching
    /\ NoIngest
    /\ text \in Suffixes
    /\ branding_terms \in Orders(BrandingTerms)
    /\ out = [h \in DOMAIN Heads |-> None]

\* normalize_identifier on the head h followed by the suffix
NormalizeIdentifier(h) ==
    /\ pc = "normalize"
    /\ out[h] = None
    /\ out' = [out EXCEPT ![h] =
                  [value |-> normalize_identifier(Heads[h] \o text, branding_terms)]]
    /\ UNCHANGED <<pc, matchingVars, ingestVars, text, branding_terms>>

NextNorm == \E h \in DOMAIN Heads : NormalizeIdentifier(h)

SpecNorm == InitNorm /\ [][NextNorm]_vars

(***************************************************************************)
(* Properties of the identifier normalizer                                 *)
(***************************************************************************)

Normalized(h) == out[h] # None

\* C8 as stated: for any suffix s, normalize_identifier maps Redis+s, Valkey+s
\* and KeyDB+s to the same string, and RM_+s and VM_+s to the same string.
C8_BrandingSymmetry ==
    /\ \A a, b \in Brands : (Normalized(a) /\ Normalized(b)) => out[a] = out[b]
    /\ (Normalized("RM_") /\ Normalized("VM_")) => out["RM_"] = out["VM_"]

\* the suffix is not empty, is not "_" alone and holds no branding term
PlainSuffix(s) ==
    /\ s # <<>>
    /\ s # <<"_">>
    /\ \A t \in BrandingTerms : ~ Contains(Lower(s), t)

\* C8, amended: for any suffix s that is not empty, is not "_" alone and in
\* which no branding term occurs, normalize_identifier maps Redis+s, Valkey+s
\* and KeyDB+s to the same string; for any suffix s it maps RM_+s and VM_+s to
\* the same string.
C8_BrandingSymmetryPlain ==
    /\ PlainSuffix(text) =>
          \A a, b \in Brands : (Normalized(a) /\ Normalized(b)) => out[a] = out[b]
    /\ (Normalized("RM_") /\ Normalized("VM_")) => out["RM_"] = out["VM_"]

\* the five identifiers over a plain suffix of two fragments are normalized:
\* the brands are stripped and the prefixes became M_
C8_Witness ==
    /\ pc = "normalize"
    /\ PlainSuffix(text)
    /\ Len(text) >= 2
    /\ \A h \in DOMAIN Heads : Normalized(h)
    /\ out["Redis"].value # Redis \o text
    /\ out["KeyDB"].value = out["Valkey"].value
    /\ out["VM_"].value = <<"M", "_">> \o text
(***************************************************************************)
(* common.py normalize_diff                                                *)
(***************************************************************************)

PRESERVED_KEYWORDS ==
    { <<"F", "a", "l", "s", "e">>, <<"N", "U", "L", "L">>, <<"N", "o", "n", "e">>,
      <<"T", "r", "u", "e">>, <<"a", "f", "t", "e", "r">>, <<"a", "n", "d">>, <<"a", "s">>,
      <<"a", "s", "s", "e", "r", "t">>,
      <<"a", "s", "s", "e", "r", "t", "_", "e", "q", "u", "a", "l">>,
      <<"a", "s", "s", "e", "r", "t", "_", "e", "r", "r", "o", "r">>,
      <<"a", "s", "s", "e", "r", "t", "_", "m", "a", "t", "c", "h">>, <<"a", "s", "y", "n", "c">>,
      <<"a", "w", "a", "i", "t">>, <<"b", "r", "e", "a", "k">>, <<"c", "a", "s", "e">>,
      <<"c", "a", "t", "c", "h">>, <<"c", "h", "a", "r">>, <<"c", "l", "a", "s", "s">>,
      <<"c", "o", "n", "s", "t">>, <<"c", "o", "n", "t", "i", "n", "u", "e">>, <<"d", "e", "f">>,
      <<"d", "e", "f", "a", "u", "l", "t">>, <<"d", "o">>, <<"d", "o", "u", "b", "l", "e">>,
      <<"e", "l", "s", "e">>, <<"e", "l", "s", "e", "i", "f">>, <<"e", "n", "u", "m">>,
      <<"e", "x", "c", "e", "p", "t">>, <<"e", "x", "p", "r">>, <<"f", "a", "l", "s", "e">>,
      <<"f", "i", "n", "a", "l", "l", "y">>, <<"f", "l", "o", "a", "t">>, <<"f", "o", "r">>,
      <<"f", "o", "r", "e", "a", "c", "h">>, <<"f", "r", "o", "m">>,
      <<"g", "l", "o", "b", "a", "l">>, <<"g", "o", "t", "o">>, <<"i", "f">>,
      <<"i", "m", "p", "o", "r", "t">>, <<"i", "n">>, <<"i", "n", "t">>, <<"i", "s">>,
      <<"l", "a", "m", "b", "d", "a">>, <<"l", "o", "n", "g">>,
      <<"n", "a", "m", "e", "s", "p", "a", "c", "e">>, <<"n", "o", "t">>, <<"o", "r">>,
      <<"p", "a", "c", "k", "a", "g", "e">>, <<"p", "a", "s", "s">>, <<"p", "r", "o", "c">>,
      <<"p", "u", "t", "s">>, <<"r">>, <<"r", "a", "i", "s", "e">>,
      <<"r", "e", "t", "u", "r", "n">>, <<"s", "e", "t">>, <<"s", "h", "o", "r", "t">>,
      <<"s", "i", "g", "n", "e", "d">>, <<"s", "i", "z", "e", "o", "f">>,
      <<"s", "o", "u", "r", "c", "e">>, <<"s", "t", "a", "t", "i", "c">>,
      <<"s", "t", "r", "u", "c", "t">>, <<"s", "w", "i", "t", "c", "h">>, <<"t", "e", "s", "t">>,
      <<"t", "r", "u", "e">>, <<"t", "r", "y">>, <<"t", "y", "p", "e", "d", "e", "f">>,
      <<"u", "n", "i", "o", "n">>, <<"u", "n", "s", "i", "g", "n", "e", "d">>,
      <<"u", "p", "v", "a", "r">>, <<"v", "a", "r", "i", "a", "b", "l", "e">>,
      <<"v", "o", "i", "d">>, <<"v", "o", "l", "a", "t", "i", "l", "e">>,
      <<"w", "h", "i", "l", "e">>, <<"w", "i", "t", "h">>, <<"y", "i", "e", "l", "d">> }

IsDigit(c) == c \in {"0", "1", "2", "3", "4", "5", "6", "7", "8", "9"}
IsLetter(c) == \E i \in 1..26 : Uppers[i] = c \/ Lowers[i] = c
\* \w and \s of the regular expressions
IsWord(c) == IsLetter(c) \/ IsDigit(c) \/ c = "_"
IsSpace(c) == c \in {" ", "\t"}

\* str.rstrip(), str.strip()
RECURSIVE RStrip(_)
RStrip(s) ==
    IF s # <<>> /\ IsSpace(s[Len(s)]) THEN RStrip(SubSeq(s, 1, Len(s) - 1)) ELSE s
RECURSIVE LStrip(_)
LStrip(s) == IF s # <<>> /\ IsSpace(s[1]) THEN LStrip(Tail(s)) ELSE s
Strip(s) == LStrip(RStrip(s))

\* the 1-based position of the first occurrence of p in s at or after i, 0 if none
RECURSIVE Find(_, _, _)
Find(s, p, i) ==
    IF i + Len(p) - 1 > Len(s) THEN 0
    ELSE IF SubSeq(s, i, i + Len(p) - 1) = p THEN i
    ELSE Find(s, p, i + 1)

\* str.split("\n") and "\n".join(lines)
RECURSIVE Split(_)
Split(s) ==
    LET n == Find(s, <<"\n">>, 1)
    IN  IF n = 0 THEN <<s>> ELSE <<SubSeq(s, 1, n - 1)>> \o Split(Drop(s, n))
RECURSIVE Join(_, _)
Join(sep, ss) ==
    IF ss = <<>> THEN <<>>
    ELSE IF Len(ss) = 1 THEN ss[1]
    ELSE ss[1] \o sep \o Join(sep, Tail(ss))

\* line 266: re.sub(r"//.*", "", content)
StripLineComment(content) ==
    LET n == Find(content, <<"/", "/">>, 1)
    IN  IF n = 0 THEN content ELSE SubSeq(content, 1, n - 1)

\* line 267: re.sub(r"/\*.*?\*/", "", content)
RECURSIVE StripBlockComments(_)
StripBlockComments(content) ==
    LET open == Find(content, <<"/", "*">>, 1)
        close == IF open = 0 THEN 0 ELSE Find(content, <<"*", "/">>, open + 2)
    IN  IF close = 0 THEN content
        ELSE SubSeq(content, 1, open - 1) \o StripBlockComments(Drop(content, close + 1))

\* line 268: re.sub(r"#\s.*", "", content)
RECURSIVE StripHashComment(_, _)
StripHashComment(content, i) ==
    IF i >= Len(content) THEN content
    ELSE IF content[i] = "#" /\ IsSpace(content[i + 1]) THEN SubSeq(content, 1, i - 1)
    ELSE StripHashComment(content, i + 1)

\* lines 266-268
StripComments(content) ==
    Strip(StripHashComment(StripBlockComments(StripLineComment(content)), 1))

\* the position of the quote that closes the literal opened with q, scanning
\* (?:[^q\\]|\\.)* from position j; 0 if the literal is not closed
RECURSIVE LiteralEnd(_, _, _)
LiteralEnd(content, q, j) ==
    IF j > Len(content) THEN 0
    ELSE IF content[j] = q THEN j
    ELSE IF content[j] = "\\"
         THEN IF j + 1 > Len(content) THEN 0 ELSE LiteralEnd(content, q, j + 2)
    ELSE LiteralEnd(content, q, j + 1)

\* the last position of the longest run of characters in class from position i
IsNumSuffix(c) == c \in {"u", "U", "l", "L", "f", "F"}
IsPunct(c) == ~ IsWord(c) /\ ~ IsSpace(c)

\* the character classes of the token alternatives
InClass(class, c) ==
    CASE class = "ident" -> IsWord(c)
      [] class = "digit" -> IsDigit(c)
      [] class = "suffix" -> IsNumSuffix(c)
      [] class = "punct" -> IsPunct(c)

RECURSIVE RunEnd(_, _, _)
RunEnd(content, class, i) ==
    IF i + 1 <= Len(content) /\ InClass(class, content[i + 1])
    THEN RunEnd(content, class, i + 1)
    ELSE i

\* the last position of the token that re.findall (line 272) matches at
\* position i, trying the five alternatives in order; 0 if none matches
TokenEnd(content, i) ==
    LET c == content[i]
        lit == IF c \in {"\"", "'"} THEN LiteralEnd(content, c, i + 1) ELSE 0
    IN  IF lit # 0 THEN lit
        ELSE IF IsLetter(c) \/ c = "_" THEN RunEnd(content, "ident", i)
        ELSE IF IsDigit(c) THEN RunEnd(content, "suffix", RunEnd(content, "digit", i))
        ELSE IF IsPunct(c) THEN RunEnd(content, "punct", i)
        ELSE 0

\* re.findall(..., content) from position i on
RECURSIVE FindAll(_, _)
FindAll(content, i) ==
    IF i > Len(content) THEN <<>>
    ELSE LET e == TokenEnd(content, i)
         IN  IF e = 0 THEN FindAll(content, i + 1)
             ELSE <<SubSeq(content, i, e)>> \o FindAll(content, e + 1)

\* lines 274-280: the normalized form of one token
NormalizeToken(t, terms) ==
    IF t[1] \in {"\"", "'"} THEN <<"S", "T", "R">>
    ELSE IF IsDigit(t[1]) THEN <<"N", "U", "M">>
    ELSE IF IsLetter(t[1]) \/ t[1] = "_"
         THEN IF t \in PRESERVED_KEYWORDS THEN t ELSE normalize_identifier(t, terms)
    ELSE t

\* lines 271-281: the output line of the stripped content
TokenLine(content, terms) ==
    LET tokens == FindAll(content, 1)
    IN  Join(<<" ">>, [k \in 1..Len(tokens) |-> NormalizeToken(tokens[k], terms)])

\* line 250: the line is a header of the unified diff
IsHeader(line) ==
    \E p \in { <<"d", "i", "f", "f", " ", "-", "-", "g", "i", "t">>, <<"i", "n", "d", "e", "x", " ">>, <<"-", "-", "-", " ">>, <<"+", "+", "+", " ">>, <<"@", "@", " ">> } : StartsWith(line, p)

\* lines 248-281: the output lines a line of the diff yields (none or one)
LineOutput(raw, should_include_context, terms) ==
    LET line == RStrip(raw)
        is_change == StartsWith(line, <<"+">>) \/ StartsWith(line, <<"-">>)
        is_context == ~ is_change /\ Len(line) > 0 /\ ~ StartsWith(line, <<"d", "i", "f", "f">>)
        content == Strip(Drop(line, 1))
        stripped == StripComments(content)
    IN  IF IsHeader(line) THEN <<>>
        ELSE IF (is_context /\ ~ should_include_context) \/ ~ (is_change \/ is_context)
        THEN <<>>
        ELSE IF StartsWith(line, <<"+", "+", "+">>) \/ StartsWith(line, <<"-", "-", "-">>) THEN <<>>
        ELSE IF content = <<>> THEN <<>>
        ELSE IF stripped = <<>> \/ StartsWith(stripped, <<"*">>) THEN <<>>
        ELSE <<TokenLine(stripped, terms)>>

RECURSIVE OutputLines(_, _, _)
OutputLines(diff_lines, should_include_context, terms) ==
    IF diff_lines = <<>> THEN <<>>
    ELSE LineOutput(diff_lines[1], should_include_context, terms)
         \o OutputLines(Tail(diff_lines), should_include_context, terms)

\* normalize_diff(diff_text, config, include_context), include_context None
\* or [value |-> a boolean]
normalize_diff(diff_text, terms, include_context) ==
    LET diff_lines == Split(diff_text)
        change_count ==
            Cardinality({ k \in 1..Len(diff_lines) :
                            \/ StartsWith(diff_lines[k], <<"+">>)
                            \/ StartsWith(diff_lines[k], <<"-">>) })
        should_include_context ==
            IF include_context # None THEN include_context.value
            ELSE change_count > 0 /\ change_count <= 5
    IN  Join(<<"\n">>, OutputLines(diff_lines, should_include_context, terms))

(***************************************************************************)
(* The diff normalizer on a change line and on the line with a comment     *)
(***************************************************************************)

\* the tokens a change line is written with
LineTokens == { <<"x">>, <<"+", "=">>, <<"5">>, <<"R", "e", "d", "i", "s", "L", "o", "g">>, <<"\"", "s", "\"">> }

\* the texts of a comment
CommentTexts == { <<"c">>, <<"a", " ", "/", "/", " ", "b">>, <<"i", "t", "'", "s">>, <<"#", " ", "x">> }

\* an added line of the given words
ChangeLine(words) == <<"+">> \o Join(<<" ">>, words)

\* the sequence ws with w inserted after its first p members
InsertAt(ws, p, w) == SubSeq(ws, 1, p) \o <<w>> \o Drop(ws, p)

\* the lines a comment can be inserted into, each with the commented line:
\* a // comment at the end, a # comment at the end, a block comment before the
\* first token, between two tokens or after the last
CommentedLines ==
    UNION { { [base |-> ChangeLine(ws), commented |-> l] :
              l \in { ChangeLine(ws) \o <<" ", "/", "/", " ">> \o c : c \in CommentTexts }
                    \cup { ChangeLine(ws) \o <<" ", "#", " ">> \o c : c \in CommentTexts }
                    \cup { ChangeLine(InsertAt(ws, p, <<"/", "*", " ">> \o c \o <<" ", "*", "/">>)) :
                             p \in 0..Len(ws), c \in CommentTexts } } :
            ws \in UNION { [1..n -> LineTokens] : n \in 1..MaxTokens } }

InitComment ==
    /\ pc = "comment"
    /\ NoMatching
    /\ NoIngest
    /\ text \in CommentedLines
    /\ branding_terms \in Orders(BrandingTerms)
    /\ out = [base |-> None, commented |-> None]

\* normalize_diff on the line (which = "base") or on the line with the comment
NormalizeDiff(which) ==
    /\ pc = "comment"
    /\ out[which] = None
    /\ out' = [out EXCEPT ![which] =
                  [value |-> normalize_diff(text[which], branding_terms, None)]]
    /\ UNCHANGED <<pc, matchingVars, ingestVars, text, branding_terms>>

NextComment == \E which \in {"base", "commented"} : NormalizeDiff(which)

SpecComment == InitComment /\ [][NextComment]_vars

\* C9: inserting a // comment at the end of a change line, a block comment
\* between its tokens or a # comment at its end, whatever the text of the
\* comment, leaves the output of normalize_diff for the line unchanged.
C9_CommentNeutrality ==
    (pc = "comment" /\ out.base # None /\ out.commented # None)
        => out.base = out.commented

(***************************************************************************)
(* common.py normalize_branding_terms, filter_branding_changes             *)
(***************************************************************************)

BRAND == <<"B", "R", "A", "N", "D">>

\* lines 395-414: the patterns in the order they are applied; each is \b and
\* the literal, followed by the group ([A-Z]) where group is TRUE
RECURSIVE BrandPatterns(_)
BrandPatterns(brands) ==
    IF brands = <<>> THEN <<>>
    ELSE << [lit |-> brands[1], repl |-> BRAND, group |-> FALSE],
            [lit |-> Lower(brands[1]), repl |-> BRAND, group |-> FALSE] >>
         \o BrandPatterns(Tail(brands))

RECURSIVE PrefixPatterns(_)
PrefixPatterns(prefixes) ==
    IF prefixes = <<>> THEN <<>>
    ELSE << [lit |-> prefixes[1], repl |-> BRAND \o <<"_">>, group |-> FALSE] >>
         \o PrefixPatterns(Tail(prefixes))

Patterns ==
    BrandPatterns(Flat(branding_pairs)) \o PrefixPatterns(Flat(prefix_pairs))
    \o [k \in 1..4 |-> [lit |-> << <<"s", "e", "r", "v", "e", "r">>, <<"S", "e", "r", "v", "e", "r">>, <<"s", "e", "n", "t", "i", "n", "e", "l">>, <<"S", "e", "n", "t", "i", "n", "e", "l">> >>[k],
                        repl |-> BRAND, group |-> TRUE]]

\* the pattern matches at position i of the text
MatchesAt(result, pattern, i) ==
    /\ i = 1 \/ ~ IsWord(result[i - 1])
    /\ SubSeq(result, i, i + Len(pattern.lit) - 1) = pattern.lit
    /\ pattern.group =>
          /\ i + Len(pattern.lit) <= Len(result)
          /\ IsUpper(result[i + Len(pattern.lit)])

\* re.sub(pattern, replacement, result), from position i on
RECURSIVE Sub(_, _, _)
Sub(result, pattern, i) ==
    IF i > Len(result) THEN <<>>
    ELSE IF i + Len(pattern.lit) - 1 <= Len(result) /\ MatchesAt(result, pattern, i)
         THEN pattern.repl \o Sub(result, pattern, i + Len(pattern.lit))
         ELSE <<result[i]>> \o Sub(result, pattern, i + 1)

\* lines 416-419: the patterns applied one after the other
RECURSIVE SubEach(_, _)
SubEach(result, patterns) ==
    IF patterns = <<>> THEN result
    ELSE SubEach(Sub(result, patterns[1], 1), Tail(patterns))

normalize_branding_terms(result) == SubEach(result, Patterns)

\* line.startswith(sign) and not line.startswith(sign * 3)
IsSigned(line, sign) ==
    StartsWith(line, <<sign>>) /\ ~ StartsWith(line, <<sign, sign, sign>>)

\* lines 432-437: the first position from j on whose line does not carry the sign
RECURSIVE RunStop(_, _, _)
RunStop(lines, sign, j) ==
    IF j <= Len(lines) /\ IsSigned(lines[j], sign) THEN RunStop(lines, sign, j + 1) ELSE j

\* lines 438-443: the minus lines and the plus lines pair up as branding changes
AllBranding(minus_lines, plus_lines) ==
    /\ Len(minus_lines) = Len(plus_lines)
    /\ \A k \in 1..Len(minus_lines) :
          normalize_branding_terms(Drop(minus_lines[k], 1))
              = normalize_branding_terms(Drop(plus_lines[k], 1))

\* lines 428-448: the loop, from line idx on
RECURSIVE FilterLoop(_, _)
FilterLoop(lines, idx) ==
    IF idx > Len(lines) THEN <<>>
    ELSE LET j == RunStop(lines, "-", idx + 1)
             e == RunStop(lines, "+", j)
         IN  IF IsSigned(lines[idx], "-")
                /\ AllBranding(SubSeq(lines, idx, j - 1), SubSeq(lines, j, e - 1))
             THEN FilterLoop(lines, e)
             ELSE <<lines[idx]>> \o FilterLoop(lines, idx + 1)

filter_branding_changes(diff_text) ==
    IF diff_text = <<>> THEN diff_text
    ELSE Join(<<"\n">>, FilterLoop(Split(diff_text), 1))

(***************************************************************************)
(* The branding filter applied to a diff and to its own output             *)
(***************************************************************************)

\* the lines of a diff: two branding changes and a context line
DiffLines == { <<"-", "R", "e", "d", "i", "s", " ", "a">>, <<"+", "V", "a", "l", "k", "e", "y", " ", "a">>, <<"-", "R", "e", "d", "i", "s", " ", "b">>, <<"+", "V", "a", "l", "k", "e", "y", " ", "b">>, <<" ", "c">> }

Diffs == { Join(<<"\n">>, ls) : ls \in UNION { [1..n -> DiffLines] : n \in 0..MaxLines } }

InitFilter ==
    /\ pc = "filter"
    /\ NoMatching
    /\ NoIngest
    /\ text \in Diffs
    /\ branding_terms = <<>>
    /\ out = [first |-> None, second |-> None]

\* filter_branding_changes(d, c)
Filter ==
    /\ pc = "filter"
    /\ out.first = None
    /\ out' = [out EXCEPT !.first = [value |-> filter_branding_changes(text)]]
    /\ UNCHANGED <<pc, matchingVars, ingestVars, text, branding_terms>>

\* filter_branding_changes on the output of the first pass
FilterAgain ==
    /\ pc = "filter"
    /\ out.first # None
    /\ out.second = None
    /\ out' = [out EXCEPT !.second = [value |-> filter_branding_changes(out.first.value)]]
    /\ UNCHANGED <<pc, matchingVars, ingestVars, text, branding_terms>>

NextFilter == Filter \/ FilterAgain

SpecFilter == InitFilter /\ [][NextFilter]_vars

\* C10: filtering the output of filter_branding_changes again returns it
\* unchanged.
C10_FilterIdempotent ==
    (pc = "filter" /\ out.second # None) => out.second.value = out.first.value

(***************************************************************************)
(* common.py detect_code_movement                                          *)
(***************************************************************************)

MIN_NET_NEW_LINES == 5
CODE_MOVEMENT_THRESHOLD == 70

\* lines 190-197: the content the line contributes to the list of its sign,
\* <<>> if it contributes none
CleanLine(line, sign) ==
    LET clean == Strip(Drop(line, 1))
    IN  IF IsSigned(line, sign) /\ clean # <<>>
           /\ ~ \E p \in { <<"/", "/">>, <<"/", "*">>, <<"#">> } : StartsWith(clean, p)
        THEN <<clean>>
        ELSE <<>>

\* lines 189-197: the list added (sign "+") or removed (sign "-")
RECURSIVE Collected(_, _)
Collected(lines, sign) ==
    IF lines = <<>> THEN <<>>
    ELSE CleanLine(lines[1], sign) \o Collected(Tail(lines), sign)

Range(s) == { s[i] : i \in DOMAIN s }

\* the decision without the movement ratio
IsTrivialByNetNew(net_new_lines, exact_matches, added) ==
    net_new_lines < MIN_NET_NEW_LINES

\* line 203: movement_ratio is exact_matches / added, 0 when nothing is added
IsTrivial(net_new_lines, exact_matches, added) ==
    \/ net_new_lines < MIN_NET_NEW_LINES
    \/ (added > 0 /\ exact_matches * 100 >= CODE_MOVEMENT_THRESHOLD * added)

\* detect_code_movement(diff_text); movement_ratio is the pair
\* <<len(exact_matches), len(added)>>
detect_code_movement(diff_text) ==
    LET lines == Split(diff_text)
        added == Collected(lines, "+")
        removed == Collected(lines, "-")
        exact_matches == Range(added) \cap Range(removed)
        net_new_lines == Len(added) - Len(removed)
    IN  [is_trivial |-> IsTrivial(net_new_lines, Cardinality(exact_matches), Len(added)),
         movement_ratio |-> <<Cardinality(exact_matches), Len(added)>>,
         net_new_lines |-> net_new_lines]

(***************************************************************************)
(* The code-movement detector on its own                                   *)
(***************************************************************************)

\* k lines of the sign, their contents the tag and a number
NumberedLines(sign, tag, k) == [i \in 1..k |-> sign \o tag \o Digits(i, 2)]

\* lines the detector does not count: file headers, comments, blank lines,
\* context
UncountedLines ==
    << <<"-", "-", "-", " ", "a", "/", "f", ".", "c">>, <<"+", "+", "+", " ", "b", "/", "f", ".", "c">>, <<"+", "/", "/", " ", "n", "0", "1">>, <<"-", "/", "*", " ", "m", "0", "1", " ", "*", "/">>, <<"+", " ", "#", " ", "m", "0", "1">>, <<"+", " ", " ">>, <<"-">>,
       <<" ", "m", "0", "1">> >>

\* a diff that moves `moved` lines, adds `new` lines, removes `gone` lines,
\* adds the first moved line `again` more times, with or without uncounted lines
MovementDiff(moved, new, gone, again, noise) ==
    Join(<<"\n">>,
         (IF noise THEN UncountedLines ELSE <<>>)
         \o NumberedLines(<<"-">>, <<"m">>, moved)
         \o NumberedLines(<<"-", " ", " ">>, <<"g">>, gone)
         \o NumberedLines(<<"+", " ">>, <<"m">>, moved)
         \o [i \in 1..again |-> <<"+", "m", "0", "1">>]
         \o NumberedLines(<<"+">>, <<"n">>, new))

InitMove ==
    /\ pc = "movement"
    /\ NoMatching
    /\ NoIngest
    /\ \E moved \in 0..MaxMoved, new \in 0..MaxNew, gone \in 0..1, again \in 0..1,
          noise \in BOOLEAN :
          /\ again = 1 => moved >= 1
          /\ text = [diff |-> MovementDiff(moved, new, gone, again, noise),
                     moved |-> moved, new |-> new, gone |-> gone, again |-> again,
                     noise |-> noise]
    /\ branding_terms = <<>>
    /\ out = None

DetectCodeMovement ==
    /\ pc = "movement"
    /\ out = None
    /\ out' = detect_code_movement(text.diff)
    /\ UNCHANGED <<pc, matchingVars, ingestVars, text, branding_terms>>

NextMove == DetectCodeMovement

SpecMove == InitMove /\ [][NextMove]_vars

\* C11: detect_code_movement flags the diff trivial exactly when the number of
\* added lines minus the number of removed lines is below 5 or the distinct
\* lines both added and removed are at least 0.70 of the added lines (ratio 0
\* when nothing is added), uncounted lines left out; so a diff that adds what
\* it removes is trivial.
C11_CodeMovement ==
    (pc = "movement" /\ out # None) =>
        LET added == text.moved + text.again + text.new
            removed == text.moved + text.gone
            both == text.moved
        IN  /\ out.net_new_lines = added - removed
            /\ out.movement_ratio = <<both, added>>
            /\ out.is_trivial
                 <=> \/ added - removed < 5
                     \/ (added > 0 /\ both * 100 >= 70 * added)
            /\ (text.new = 0 /\ text.gone = 0 /\ text.again = 0) => out.is_trivial

\* a diff with five more added lines than removed lines was flagged for its
\* movement ratio alone, among uncounted lines
C11_Witness ==
    /\ pc = "movement"
    /\ out # None
    /\ text.noise
    /\ out.net_new_lines >= 5
    /\ out.is_trivial

(***************************************************************************)
(* The identifier normalizer run with the terms in every iteration order   *)
(***************************************************************************)

Identifiers == { Heads[h] \o s : h \in DOMAIN Heads, s \in Suffixes }

InitOrder ==
    /\ pc = "orders"
    /\ NoMatching
    /\ NoIngest
    /\ text \in Identifiers
    /\ branding_terms = <<>>
    /\ out = [o \in Orders(BrandingTerms) |-> None]

\* a run of normalize_identifier in which the set branding_terms iterates in
\* the order o
NormalizeInOrder(o) ==
    /\ pc = "orders"
    /\ out[o] = None
    /\ out' = [out EXCEPT ![o] = [value |-> normalize_identifier(text, o)]]
    /\ UNCHANGED <<pc, matchingVars, ingestVars, text, branding_terms>>

NextOrder == \E o \in Orders(BrandingTerms) : NormalizeInOrder(o)

SpecOrder == InitOrder /\ [][NextOrder]_vars

\* C12: two runs of normalize_identifier on the same identifier that iterate
\* the branding terms in different orders return the same token.
C12_OrderIndependent ==
    pc = "orders" =>
        \A o1, o2 \in Orders(BrandingTerms) :
            (out[o1] # None /\ out[o2] # None) => out[o1] = out[o2]

(***************************************************************************)
(* common.py deep_compare_diffs                                            *)
(***************************************************************************)

\* str.split(): the words between runs of whitespace
RECURSIVE Words(_, _)
Words(s, word) ==
    IF s = <<>> THEN (IF word = <<>> THEN <<>> ELSE <<word>>)
    ELSE IF IsSpace(s[1]) \/ s[1] = "\n"
         THEN (IF word = <<>> THEN <<>> ELSE <<word>>) \o Words(Tail(s), <<>>)
         ELSE Words(Tail(s), Append(word, s[1]))

\* a fraction num / den, den > 0
Frac(num, den) == [num |-> num, den |-> den]
FracGeq(a, b) == a.num * b.den >= b.num * a.den

\* line 468: the subset ratio over the distinct tokens of the source
SubsetOfSource(intersection, valkey_set, redis_set) ==
    Frac(Cardinality(intersection), Cardinality(redis_set))

\* line 468: subset_ratio
SubsetRatio(intersection, valkey_set, redis_set) ==
    Frac(Cardinality(intersection), Cardinality(valkey_set))

\* lines 457-477 on the two token lists: [similarity, intersection, union]
CompareTokens(valkey_tokens, redis_tokens) ==
    LET valkey_set == Range(valkey_tokens)
        redis_set == Range(redis_tokens)
        intersection == valkey_set \cap redis_set
        union == valkey_set \cup redis_set
        max_len == Max(Len(valkey_tokens), Len(redis_tokens))
        matching_count ==
            Cardinality({ k \in 1..Min(Len(valkey_tokens), Len(redis_tokens)) :
                            valkey_tokens[k] = redis_tokens[k] })
        \* 0.6 * jaccard + 0.4 * sequence_sim
        weighted_sim ==
            Frac(6 * Cardinality(intersection) * max_len
                    + 4 * matching_count * Cardinality(union),
                 10 * Cardinality(union) * max_len)
        subset_ratio == SubsetRatio(intersection, valkey_set, redis_set)
    IN  IF valkey_tokens = <<>> \/ redis_tokens = <<>>
        THEN [similarity |-> Frac(0, 1), intersection |-> 0, union |-> max_len]
        ELSE [similarity |-> IF FracGeq(weighted_sim, subset_ratio)
                             THEN weighted_sim ELSE subset_ratio,
              intersection |-> Cardinality(intersection),
              union |-> Cardinality(union)]

\* deep_compare_diffs(valkey_diff, redis_diff, config)
deep_compare_diffs(valkey_diff, redis_diff, terms) ==
    CompareTokens(Words(normalize_diff(valkey_diff, terms, None), <<>>),
                  Words(normalize_diff(redis_diff, terms, None), <<>>))

(***************************************************************************)
(* The deep comparison on its own                                          *)
(***************************************************************************)

\* the lines of the two diffs
DeepLines == { <<"+", "x", " ", "=", " ", "5", ";">>, <<"+", "R", "e", "d", "i", "s", "L", "o", "g", "(", "x", ")", ";">>, <<"+", "/", "/", " ", "c">> }

DeepDiffs ==
    { Join(<<"\n">>, ls) : ls \in UNION { [1..n -> DeepLines] : n \in 0..MaxDeepLines } }

InitDeep ==
    /\ pc = "deep"
    /\ NoMatching
    /\ NoIngest
    /\ text \in [valkey_diff : DeepDiffs, redis_diff : DeepDiffs]
    /\ branding_terms \in Orders(BrandingTerms)
    /\ out = None

DeepCompareDiffs ==
    /\ pc = "deep"
    /\ out = None
    /\ out' = deep_compare_diffs(text.valkey_diff, text.redis_diff, branding_terms)
    /\ UNCHANGED <<pc, matchingVars, ingestVars, text, branding_terms>>

NextDeep == DeepCompareDiffs

SpecDeep == InitDeep /\ [][NextDeep]_vars

\* the token lists A and B of the compared diffs
TokensA == Words(normalize_diff(text.valkey_diff, branding_terms, None), <<>>)
TokensB == Words(normalize_diff(text.redis_diff, branding_terms, None), <<>>)

\* C13: deep_compare_diffs returns max(0.6 * jaccard + 0.4 * sequence, subset)
\* over the token lists A and B, a value in [0, 1]; 0 when A or B is empty;
\* and 1 whenever every distinct token of A occurs in B.
C13_DeepCompare ==
    (pc = "deep" /\ out # None) =>
        LET A == TokensA
            B == TokensB
            i == Cardinality(Range(A) \cap Range(B))
            u == Cardinality(Range(A) \cup Range(B))
            L == IF Len(A) >= Len(B) THEN Len(A) ELSE Len(B)
            m == Cardinality({ k \in DOMAIN A \cap DOMAIN B : A[k] = B[k] })
            sim == out.similarity
        IN  /\ 0 <= sim.num /\ sim.num <= sim.den /\ sim.den > 0
            /\ (A = <<>> \/ B = <<>>) => sim.num = 0
            /\ (A # <<>> /\ B # <<>>) =>
                  \* sim >= each of the two, and sim equals one of them
                  /\ sim.num * 10 * u * L >= (6 * i * L + 4 * m * u) * sim.den
                  /\ sim.num * Cardinality(Range(A)) >= i * sim.den
                  /\ \/ sim.num * 10 * u * L = (6 * i * L + 4 * m * u) * sim.den
                     \/ sim.num * Cardinality(Range(A)) = i * sim.den
            /\ (A # <<>> /\ B # <<>> /\ Range(A) \subseteq Range(B)) => sim.num = sim.den

\* a fragment was compared with a longer source that holds all its tokens
\* after other tokens, and the result is 1
C13_Witness ==
    /\ pc = "deep"
    /\ out # None
    /\ TokensA # <<>>
    /\ Range(TokensA) \subseteq Range(TokensB)
    /\ Len(TokensB) > Len(TokensA)
    /\ TokensB[1] # TokensA[1]
    /\ out.similarity.num = out.similarity.den

(***************************************************************************)
(* refresh_prs.py                                                          *)
(***************************************************************************)

MAX_PAGES == 100
CHECKPOINT_INTERVAL == 10

\* should_skip_pr(title, pr)
should_skip_pr(title, pr) ==
    LET t == Lower(title)
    IN  \/ Contains(t, <<"m", "e", "r", "g", "e">>) /\ Contains(t, <<"i", "n", "t", "o">>)
        \/ Contains(t, <<"r", "e", "l", "e", "a", "s", "e">>) \/ StartsWith(t, <<"r", "e", "l", "e", "a", "s", "e", "/">>)
        \/ t \in { <<"m", "a", "i", "n">>, <<"u", "n", "s", "t", "a", "b", "l", "e">>, <<"m", "a", "s", "t", "e", "r">> }
        \/ pr.changed_files > 50

\* a dict holding the value v alone
ReplaceAll(dict, k, v) == [x \in {k} |-> v]

\* a dict with the value v under the key k
Upsert(dict, k, v) == [x \in DOMAIN dict \cup {k} |-> IF x = k THEN v ELSE dict[x]]

\* line 47: the listed PRs created after since_ts, in order
RECURSIVE Select(_, _)
Select(seq, since_ts) ==
    IF seq = <<>> THEN <<>>
    ELSE (IF TsGreater(normalize_timestamp(seq[1].created_at), since_ts)
          THEN <<seq[1]>> ELSE <<>>) \o Select(Tail(seq), since_ts)

\* the host's answer to pulls?state=..&sort=created&direction=desc&per_page=..&page=..
RECURSIVE NewestFirst(_, _)
NewestFirst(listed, state) ==
    IF listed = <<>> THEN <<>>
    ELSE NewestFirst(Tail(listed), state)
         \o (IF listed[1].state = state THEN <<listed[1]>> ELSE <<>>)

HostPage(state, page, per_page) ==
    LET all == NewestFirst(host.prs, state)
    IN  SubSeq(all, (page - 1) * per_page + 1, Min(page * per_page, Len(all)))

\* fetch_pr_list(owner, repo, state, page, per_page, token, since_created)
fetch_pr_list(state, page, per_page, since_created) ==
    LET listed == HostPage(state, page, per_page)
        recent == Select(listed, normalize_timestamp(since_created))
    IN  IF since_created = None
        THEN [pr_list |-> listed, stop |-> listed = <<>>]
        ELSE [pr_list |-> recent, stop |-> Len(recent) < Len(listed) \/ listed = <<>>]

\* line 54: max(p["created_at"] for p in prs.values()), a maximum of str
MaxCreatedAt(dict) ==
    LET all == { dict[k].created_at : k \in DOMAIN dict }
    IN  CHOOSE c \in all : \A d \in all : ~ StrGreater(IsoZ(d), IsoZ(c))

\* lines 69-73: the record built from the PR and its diff
PrRecord(pr) ==
    [number |-> pr.number, state |-> pr.state, created_at |-> pr.created_at,
     updated_at |-> pr.updated_at, simhash64 |-> Low(pr.diff)]

\* line 64: the PR is stored and the listing is not newer than the record
UpToDate(pr, dict) ==
    /\ pr.number \in DOMAIN dict
    /\ ~ TsGreater(normalize_timestamp(pr.updated_at),
                   normalize_timestamp(dict[pr.number].updated_at))

\* the loop over the states moves on: lines 57-58, or leaves for line 82
LeaveState(r) ==
    IF r.state = "open"
    THEN [r EXCEPT !.at = "list", !.state = "closed", !.page = 1]
    ELSE [r EXCEPT !.at = "write"]

\* lines 59-61: one turn of the while loop up to the for loop
ListPage ==
    /\ pc = "refresh"
    /\ run.at = "list"
    /\ LET r == fetch_pr_list(run.state, run.page, PER_PAGE, run.since_created)
       IN  run' = IF run.page > MAX_PAGES \/ r.pr_list = <<>>
                  THEN LeaveState(run)
                  ELSE [run EXCEPT !.at = "pr", !.pr_list = r.pr_list,
                                   !.stop = r.stop, !.i = 1]
    /\ UNCHANGED <<host, prs, commits, loaded, written>>
    /\ UNCHANGED <<matchingVars, textVars, pc>>

\* lines 79-80 after the last PR of the page
AfterPage(r) ==
    IF r.stop THEN LeaveState(r) ELSE [r EXCEPT !.at = "list", !.page = r.page + 1]

\* lines 62-78: one turn of the for loop
ProcessPr ==
    /\ pc = "refresh"
    /\ run.at = "pr"
    /\ LET pr == run.pr_list[run.i]
           stored == Upsert(prs, pr.number, PrRecord(pr))
       IN  /\ IF UpToDate(pr, prs) \/ should_skip_pr(pr.title, pr) \/ pr.fetch_fails
              THEN UNCHANGED <<prs, written>>
              ELSE /\ prs' = stored
                   /\ written' =
                        IF Cardinality(DOMAIN stored) % CHECKPOINT_INTERVAL = 0
                           /\ host.disk_ok
                        THEN Append(written, stored)
                        ELSE written
           /\ run' = IF run.i < Len(run.pr_list)
                     THEN [run EXCEPT !.i = run.i + 1]
                     ELSE AfterPage(run)
    /\ UNCHANGED <<host, commits, loaded>>
    /\ UNCHANGED <<matchingVars, textVars, pc>>

\* lines 82-84: the final write, which raises if the file cannot be written
FinalWrite ==
    /\ pc = "refresh"
    /\ run.at = "write"
    /\ IF host.disk_ok
       THEN /\ written' = Append(written, prs)
            /\ run' = [run EXCEPT !.at = "done"]
       ELSE /\ UNCHANGED written
            /\ run' = [run EXCEPT !.at = "raised"]
    /\ UNCHANGED <<host, prs, commits, loaded>>
    /\ UNCHANGED <<matchingVars, textVars, pc>>

(***************************************************************************)
(* A run of refresh_prs                                                    *)
(***************************************************************************)

\* the PRs the host can list: new ones (open, closed, one whose diff cannot
\* be fetched, one skipped for its title, one for its size), one stored and
\* unchanged, and two stored whose updated_at has advanced since
PrKinds ==
    LET k(state, title, changed_files, fetch_fails, stored) ==
            [state |-> state, title |-> title, changed_files |-> changed_files,
             fetch_fails |-> fetch_fails, stored |-> stored]
    IN  { k("open", <<"F", "i", "x", " ", "b", "u", "g">>, 3, FALSE, "no"),
          k("closed", <<"F", "i", "x", " ", "b", "u", "g">>, 3, FALSE, "no"),
          k("open", <<"F", "i", "x", " ", "b", "u", "g">>, 3, TRUE, "no"),
          k("closed", <<"M", "e", "r", "g", "e", " ", "a", " ", "i", "n", "t", "o", " ", "b">>, 3, FALSE, "no"),
          k("open", <<"F", "i", "x", " ", "b", "u", "g">>, 51, FALSE, "no"),
          k("open", <<"F", "i", "x", " ", "b", "u", "g">>, 3, FALSE, "current"),
          k("closed", <<"F", "i", "x", " ", "b", "u", "g">>, 3, FALSE, "stale"),
          k("open", <<"F", "i", "x", " ", "b", "u", "g">>, 3, FALSE, "stale") }

Later == Ts(20, 0, 0, "Z")
Created(n) == Ts(n, 0, 0, "Z")

\* PR number n as the host lists it
HostPr(n, kind) ==
    [number |-> n, state |-> kind.state, title |-> kind.title,
     changed_files |-> kind.changed_files, fetch_fails |-> kind.fetch_fails,
     created_at |-> Created(n),
     updated_at |-> IF kind.stored = "stale" THEN Later ELSE Created(n),
     diff |-> IF kind.stored = "stale" THEN 1 ELSE 0]

\* the record of PR number n in the database file, written when its
\* updated_at was its created_at
StoredPr(n, kind) ==
    [number |-> n, state |-> kind.state, created_at |-> Created(n),
     updated_at |-> Created(n), simhash64 |-> Low(0)]

\* a record of a PR the host lists no more
OldPr(n) ==
    [number |-> n, state |-> "closed", created_at |-> Created(0),
     updated_at |-> Created(0), simhash64 |-> Low(0)]

\* the dict in the database file: `old` old records and the stored listed PRs
DatabaseFile(kinds, old) ==
    LET keys == { n \in DOMAIN kinds : kinds[n].stored # "no" } \cup (101 .. 100 + old)
    IN  [n \in keys |-> IF n > 100 THEN OldPr(n) ELSE StoredPr(n, kinds[n])]

cutoff_date == Created(0)

InitRefresh ==
    /\ pc = "refresh"
    /\ NoMatching
    /\ text = <<>>
    /\ branding_terms = <<>>
    /\ out = None
    /\ commits = <<>>
    /\ \E n \in 0..MaxPrs : \E kinds \in [1..n -> PrKinds] :
       \E old \in {0, CHECKPOINT_INTERVAL - 1} : \E disk_ok \in BOOLEAN :
          /\ host = [prs |-> [i \in 1..n |-> HostPr(i, kinds[i])], disk_ok |-> disk_ok]
          /\ loaded = DatabaseFile(kinds, old)
    /\ prs = loaded
    /\ written = <<>>
    \* lines 54-55
    /\ run = [at |-> "list", state |-> "open", page |-> 1, pr_list |-> <<>>,
              stop |-> FALSE, i |-> 0,
              since_created |->
                  normalize_timestamp(IF DOMAIN loaded # {} THEN MaxCreatedAt(loaded)
                                      ELSE cutoff_date)]

NextRefresh == ListPage \/ ProcessPr \/ FinalWrite

SpecRefresh == InitRefresh /\ [][NextRefresh]_vars

(***************************************************************************)
(* bootstrap_commits.py clone_and_process                                  *)
(***************************************************************************)

SIZE_LIMIT_KB == 1048576

\* the steps of clone_and_process that can fail
BootstrapSteps ==
    { "mkdtemp", "chmod", "clone", "config", "count-objects", "checkout", "rev-list", "fingerprint", "write" }

\* the step fails in this run
StepFails(step) == host.fail = step

\* the try block is left with an exception: the finally clause runs, then the
\* exception propagates
Raise(r) == [r EXCEPT !.at = "finally", !.raising = TRUE]

\* line 27: tempfile.mkdtemp creates the directory, readable by its owner only
Mkdtemp ==
    /\ pc = "bootstrap"
    /\ run.at = "mkdtemp"
    /\ run' = IF StepFails("mkdtemp")
              THEN [run EXCEPT !.at = "raised"]
              ELSE [run EXCEPT !.at = "chmod",
                               !.temp_dir = [mode |-> "0700", cloned |-> FALSE,
                                             mode_at_clone |-> None]]
    /\ UNCHANGED <<host, prs, commits, loaded, written>>
    /\ UNCHANGED <<matchingVars, textVars, pc>>

\* line 29
Chmod ==
    /\ pc = "bootstrap"
    /\ run.at = "chmod"
    /\ run' = IF StepFails("chmod") THEN Raise(run)
              ELSE [run EXCEPT !.at = "clone", !.temp_dir.mode = "0700"]
    /\ UNCHANGED <<host, prs, commits, loaded, written>>
    /\ UNCHANGED <<matchingVars, textVars, pc>>

\* lines 31-32: git clone into the directory (a failed clone may have written
\* into it), git config
Clone ==
    /\ pc = "bootstrap"
    /\ run.at = "clone"
    /\ LET filled == [run EXCEPT !.temp_dir.cloned = TRUE,
                                 !.temp_dir.mode_at_clone = [mode |-> run.temp_dir.mode]]
       IN  run' = IF StepFails("clone") \/ StepFails("config") THEN Raise(filled)
                  ELSE [filled EXCEPT !.at = "size"]
    /\ UNCHANGED <<host, prs, commits, loaded, written>>
    /\ UNCHANGED <<matchingVars, textVars, pc>>

\* lines 35-42: the size check
SizeCheck ==
    /\ pc = "bootstrap"
    /\ run.at = "size"
    /\ run' = IF StepFails("count-objects") \/ host.size_kb > SIZE_LIMIT_KB
              THEN Raise(run)
              ELSE [run EXCEPT !.at = "checkout"]
    /\ UNCHANGED <<host, prs, commits, loaded, written>>
    /\ UNCHANGED <<matchingVars, textVars, pc>>

\* lines 44-50: checkout, rev-list, load_db
Enumerate ==
    /\ pc = "bootstrap"
    /\ run.at = "checkout"
    /\ IF StepFails("checkout") \/ StepFails("rev-list")
       THEN /\ run' = Raise(run)
            /\ UNCHANGED <<commits, loaded>>
       ELSE /\ run' = [run EXCEPT !.at = "commit", !.i = 1]
            /\ loaded' = host.database
            /\ commits' = host.database
    /\ UNCHANGED <<host, prs, written>>
    /\ UNCHANGED <<matchingVars, textVars, pc>>

\* line 55: the record of a commit
CommitRecord(sha) == [sha |-> sha, date |-> Created(sha), simhash64 |-> Low(0)]

\* lines 51-56: one turn of the loop over the shas
ProcessCommit ==
    /\ pc = "bootstrap"
    /\ run.at = "commit"
    /\ run.i <= Len(host.shas)
    /\ LET sha == host.shas[run.i]
       IN  IF sha \in DOMAIN commits
           THEN /\ run' = [run EXCEPT !.i = run.i + 1]
                /\ UNCHANGED commits
           ELSE IF StepFails("fingerprint")
           THEN /\ run' = Raise(run)
                /\ UNCHANGED commits
           ELSE /\ run' = [run EXCEPT !.i = run.i + 1]
                /\ commits' = Upsert(commits, sha, CommitRecord(sha))
    /\ UNCHANGED <<host, prs, loaded, written>>
    /\ UNCHANGED <<matchingVars, textVars, pc>>

\* lines 58-61: the database file is written
WriteCommits ==
    /\ pc = "bootstrap"
    /\ run.at = "commit"
    /\ run.i > Len(host.shas)
    /\ IF StepFails("write")
       THEN /\ run' = Raise(run)
            /\ UNCHANGED written
       ELSE /\ run' = [run EXCEPT !.at = "finally"]
            /\ written' = Append(written, commits)
    /\ UNCHANGED <<host, prs, commits, loaded>>
    /\ UNCHANGED <<matchingVars, textVars, pc>>

\* the finally clause without the removal
KeepTempDir(r) == [r EXCEPT !.at = IF r.raising THEN "raised" ELSE "returned"]

\* lines 62-63: rm -rf temp_dir, then the function returns or the exception
\* propagates
Finally(r) ==
    [r EXCEPT !.temp_dir = None, !.at = IF r.raising THEN "raised" ELSE "returned"]

Cleanup ==
    /\ pc = "bootstrap"
    /\ run.at = "finally"
    /\ run' = Finally(run)
    /\ UNCHANGED <<host, prs, commits, loaded, written>>
    /\ UNCHANGED <<matchingVars, textVars, pc>>

\* the database file the run finds: none, or commits of which rev-list may
\* enumerate some again
CommitDatabases(n) ==
    { [sha \in keys |-> CommitRecord(sha)] : keys \in SUBSET ((1..n) \cup {101}) }

InitBootstrap ==
    /\ pc = "bootstrap"
    /\ NoMatching
    /\ text = <<>>
    /\ branding_terms = <<>>
    /\ out = None
    /\ prs = <<>>
    /\ \E n \in 0..MaxShas : \E fail \in BootstrapSteps \cup {"none"} :
       \E size_kb \in {SIZE_LIMIT_KB, SIZE_LIMIT_KB + 1} :
       \E database \in CommitDatabases(n) :
          host = [shas |-> [i \in 1..n |-> i], fail |-> fail, size_kb |-> size_kb,
                  database |-> database]
    /\ loaded = <<>>
    /\ commits = <<>>
    /\ written = <<>>
    /\ run = [at |-> "mkdtemp", temp_dir |-> None, raising |-> FALSE, i |-> 0]

NextBootstrap ==
    \/ Mkdtemp \/ Chmod \/ Clone \/ SizeCheck \/ Enumerate
    \/ ProcessCommit \/ WriteCommits \/ Cleanup

(***************************************************************************)
(* The ingest runs                                                         *)
(***************************************************************************)

InitIngest == InitRefresh \/ InitBootstrap
NextIngest == NextRefresh \/ NextBootstrap
SpecIngest == InitIngest /\ [][NextIngest]_vars

\* the dict of the run in memory
InMemory == IF pc = "refresh" THEN prs ELSE commits

\* C14: during a run of refresh_prs or clone_and_process every key of the
\* database loaded at the start is in the dict in memory and in every
\* database file the run has written.
C14_NoDeletion ==
    pc \in {"refresh", "bootstrap"} =>
        /\ DOMAIN loaded \subseteq DOMAIN InMemory
        /\ \A k \in 1..Len(written) : DOMAIN loaded \subseteq DOMAIN written[k]

\* a refresh run that loaded records has written a checkpoint and the final
\* file, after a PR was skipped and a fetch failed
C14_Witness ==
    /\ pc = "refresh"
    /\ run.at = "done"
    /\ Len(written) = 2
    /\ DOMAIN loaded # {}
    /\ DOMAIN loaded # DOMAIN prs
    /\ \E i \in 1..Len(host.prs) : host.prs[i].fetch_fails
    /\ \E i \in 1..Len(host.prs) : should_skip_pr(host.prs[i].title, host.prs[i])

\* C17: the temporary directory of clone_and_process is readable by its owner
\* only when the repository is cloned into it, and it is gone once the
\* function has returned or raised, whichever step failed.
C17_TempDirRemoved ==
    pc = "bootstrap" =>
        /\ run.at \in {"returned", "raised"} => run.temp_dir = None
        /\ (run.temp_dir # None /\ run.temp_dir.cloned)
              => run.temp_dir.mode_at_clone = [mode |-> "0700"]

\* a run whose clone succeeded has raised from a later step, after the
\* directory held the clone
C17_Witness ==
    /\ pc = "bootstrap"
    /\ run.at = "raised"
    /\ host.fail \in {"checkout", "fingerprint", "write"} \/ host.size_kb > SIZE_LIMIT_KB
    /\ host.fail \notin {"mkdtemp", "chmod", "clone", "config"}
    /\ run.temp_dir = None

\* C15: when a run of refresh_prs has finished, every PR the host lists that
\* the loaded database held with an earlier updated_at, that is not skipped
\* and whose diff could be fetched, is stored with the listed updated_at and
\* the fingerprint of the fetched diff.
C15_StaleRefetched ==
    (pc = "refresh" /\ run.at = "done") =>
        \A i \in 1..Len(host.prs) :
            LET pr == host.prs[i]
            IN  ( /\ pr.number \in DOMAIN loaded
                  /\ TsGreater(normalize_timestamp(pr.updated_at),
                               normalize_timestamp(loaded[pr.number].updated_at))
                  /\ ~ should_skip_pr(pr.title, pr)
                  /\ ~ pr.fetch_fails )
                => prs[pr.number] = PrRecord(pr)

(***************************************************************************)
(* common.py github_request                                                *)
(***************************************************************************)

DEFAULT_RETRY == 3
RATE_LIMIT_MAX_WAIT == 300
RATE_LIMIT_REFUSE == 600

\* what the host can answer to one request: a body, an HTTP error with its
\* code (a 403 with the seconds until X-RateLimit-Reset, or without the
\* header), or no answer at all (URLError)
Responses ==
    { [kind |-> "ok", code |-> 200, reset_in |-> None],
      [kind |-> "HTTPError", code |-> 403, reset_in |-> [value |-> 0]],
      [kind |-> "HTTPError", code |-> 403, reset_in |-> [value |-> 350]],
      [kind |-> "HTTPError", code |-> 403, reset_in |-> [value |-> 600]],
      [kind |-> "HTTPError", code |-> 403, reset_in |-> [value |-> 601]],
      [kind |-> "HTTPError", code |-> 403, reset_in |-> None],
      [kind |-> "HTTPError", code |-> 404, reset_in |-> None],
      [kind |-> "HTTPError", code |-> 503, reset_in |-> None],
      [kind |-> "URLError", code |-> 0, reset_in |-> None] }

RECURSIVE Pow2(_)
Pow2(n) == IF n = 0 THEN 1 ELSE 2 * Pow2(n - 1)

\* lines 116-117 and 122-123: the backoff before the next attempt, None when
\* the error is raised instead
Backoff(attempt, retry) ==
    IF attempt < retry - 1 THEN [value |-> Pow2(attempt)] ELSE None

\* a wait as long as the time to the reset
RateLimitWaitUncapped(raw_wait) == raw_wait

\* line 108: the wait before the attempt that follows a rate-limited one
RateLimitWait(raw_wait) == Min(raw_wait, RATE_LIMIT_MAX_WAIT)

\* lines 98-127: one turn of the loop, or line 127 when the loop is over
Request ==
    /\ pc = "request"
    /\ run.at = "loop"
    /\ IF run.attempt >= host.retry
       THEN run' = [run EXCEPT !.at = "raised", !.error = "RuntimeError"]
       ELSE LET response == host.responses[run.attempt + 1]
                asked == [run EXCEPT !.requests = run.requests + 1]
                again == [asked EXCEPT !.attempt = run.attempt + 1]
                backoff == Backoff(run.attempt, host.retry)
            IN  run' =
                CASE response.kind = "ok" -> [asked EXCEPT !.at = "returned"]
                  [] response.kind = "HTTPError" /\ response.code = 403 ->
                        IF response.reset_in # None
                        THEN LET raw_wait == Max(response.reset_in.value, 0) + 1
                                 wait == RateLimitWait(raw_wait)
                             IN  IF raw_wait > RATE_LIMIT_REFUSE
                                 THEN [asked EXCEPT !.at = "raised", !.error = "RuntimeError"]
                                 ELSE [again EXCEPT !.sleeps = Append(run.sleeps, wait)]
                        ELSE [asked EXCEPT !.at = "raised", !.error = "HTTPError"]
                  [] response.kind = "HTTPError" /\ response.code # 403 ->
                        IF response.code >= 500 /\ backoff # None
                        THEN [again EXCEPT !.sleeps = Append(run.sleeps, backoff.value)]
                        ELSE [asked EXCEPT !.at = "raised", !.error = "HTTPError"]
                  [] response.kind = "URLError" ->
                        IF backoff # None
                        THEN [again EXCEPT !.sleeps = Append(run.sleeps, backoff.value)]
                        ELSE [asked EXCEPT !.at = "raised", !.error = "URLError"]
    /\ UNCHANGED <<host, prs, commits, loaded, written>>
    /\ UNCHANGED <<matchingVars, textVars, pc>>

InitRequest ==
    /\ pc = "request"
    /\ NoMatching
    /\ text = <<>>
    /\ branding_terms = <<>>
    /\ out = None
    /\ prs = <<>>
    /\ commits = <<>>
    /\ loaded = <<>>
    /\ written = <<>>
    /\ \E retry \in 1..DEFAULT_RETRY : \E responses \in [1..MaxResponses -> Responses] :
          host = [retry |-> retry, responses |-> responses]
    /\ run = [at |-> "loop", attempt |-> 0, requests |-> 0, sleeps |-> <<>>,
              error |-> "none"]

NextRequest == Request

SpecRequest == InitRequest /\ [][NextRequest]_vars

\* the host keeps answering with 5xx responses or network errors
HostKeepsFailing ==
    \A k \in 1..MaxResponses :
        \/ host.responses[k].kind = "URLError"
        \/ host.responses[k].kind = "HTTPError" /\ host.responses[k].code >= 500

\* C16: a call of github_request makes a bounded number of requests whatever
\* the host answers; with the default retry, against a host that keeps
\* answering with 5xx responses or network errors, it retries 3 times, waits
\* 1 s, 2 s and 4 s before the retries, and then raises the error.
C16_BoundedRetries ==
    pc = "request" =>
        /\ run.requests <= host.retry + 1
        /\ (run.at = "raised" /\ host.retry = DEFAULT_RETRY /\ HostKeepsFailing)
              => /\ run.sleeps = <<1, 2, 4>>
                 /\ run.requests = DEFAULT_RETRY + 1
                 /\ run.error \in {"HTTPError", "URLError"}

(***************************************************************************)
(* check.py main                                                           *)
(***************************************************************************)

\* what the environment of one invocation decides: whether each database
\* file loads to a non-empty dict, the mode, whether the PR can be fetched,
\* whether both SHAs are given, how `git diff` ends ("ok", "nonzero" for a
\* non-zero exit status, "timeout" for TimeoutExpired), the diff of the PR
\* or of the two SHAs, whether check_diff finds matches for it and whether
\* check_diff raises
Invocations ==
    [pr_db : BOOLEAN, commit_db : BOOLEAN, pr_number : BOOLEAN, fetch_ok : BOOLEAN,
     shas : BOOLEAN, git_diff : {"ok", "nonzero", "timeout"},
     diff : {"empty", "diff"}, found : BOOLEAN, check_raises : BOOLEAN]

\* lines 97-99 and 133: found, as check_diff returns it for the diff bytes
CheckDiffFound(inv, diff_bytes) ==
    IF diff_bytes = "empty" THEN FALSE ELSE inv.found

\* line 201-202: the bytes main reads from `git diff`; a git that exits with
\* a non-zero status has printed no diff
GitDiffStdout(inv) == IF inv.git_diff = "ok" THEN inv.diff ELSE "empty"

\* lines 175-207: the exit code of main; an exception that leaves main ends
\* the interpreter with code 1
ExitCode(inv) ==
    IF ~ inv.pr_db /\ ~ inv.commit_db THEN 1
    ELSE IF inv.pr_number
    THEN IF ~ inv.fetch_ok \/ inv.check_raises THEN 1
         ELSE IF CheckDiffFound(inv, inv.diff) THEN 1 ELSE 0
    ELSE IF ~ inv.shas THEN 1
    ELSE IF inv.git_diff = "timeout" THEN 1
    ELSE IF GitDiffStdout(inv) # "empty" /\ inv.check_raises THEN 1
    ELSE IF CheckDiffFound(inv, GitDiffStdout(inv)) THEN 1 ELSE 0

Main ==
    /\ pc = "cli"
    /\ run.at = "main"
    /\ run' = [at |-> "exited", code |-> [value |-> ExitCode(host)]]
    /\ UNCHANGED <<host, prs, commits, loaded, written>>
    /\ UNCHANGED <<matchingVars, textVars, pc>>

InitCli ==
    /\ pc = "cli"
    /\ NoMatching
    /\ text = <<>>
    /\ branding_terms = <<>>
    /\ out = None
    /\ prs = <<>>
    /\ commits = <<>>
    /\ loaded = <<>>
    /\ written = <<>>
    /\ host \in Invocations
    /\ run = [at |-> "main", code |-> None]

NextCli == Main

SpecCli == InitCli /\ [][NextCli]_vars

\* the invocation produced at least one finding
FindingProduced(inv) ==
    /\ inv.pr_db \/ inv.commit_db
    /\ IF inv.pr_number
       THEN inv.fetch_ok /\ ~ inv.check_raises /\ inv.diff = "diff" /\ inv.found
       ELSE inv.shas /\ inv.git_diff = "ok" /\ ~ inv.check_raises
            /\ inv.diff = "diff" /\ inv.found

\* the invocation met an unrecoverable error
UnrecoverableError(inv) ==
    \/ ~ inv.pr_db /\ ~ inv.commit_db
    \/ inv.pr_number /\ (~ inv.fetch_ok \/ inv.check_raises)
    \/ ~ inv.pr_number /\ ~ inv.shas
    \/ ~ inv.pr_number /\ inv.shas /\ inv.git_diff # "ok"
    \/ ~ inv.pr_number /\ inv.shas /\ inv.git_diff = "ok" /\ inv.diff = "diff"
          /\ inv.check_raises

\* C18: the check CLI exits with code 1 exactly when a finding was produced
\* or an unrecoverable error occurred (no database loaded, the PR could not
\* be fetched, a SHA is missing, `git diff` failed), and with code 0
\* otherwise.
C18_ExitCode ==
    (pc = "cli" /\ run.at = "exited") =>
        /\ run.code.value \in {0, 1}
        /\ run.code.value = 1 <=> (FindingProduced(host) \/ UnrecoverableError(host))

(***************************************************************************)
(* common.py hamming_distance, bit by bit                                  *)
(***************************************************************************)

HASH_BITS == 64

\* line 349: a ^ b
Xor(a, b) == (a \ b) \cup (b \ a)

\* a shift that loses the top bit
ShiftRightSigned(xor) == { i - 1 : i \in xor \ {0, HASH_BITS - 1} }

\* line 353: xor >>= 1
ShiftRight(xor) == { i - 1 : i \in xor \ {0} }

\* lines 351-354: the while loop
RECURSIVE CountLoop(_, _)
CountLoop(xor, count) ==
    IF xor = {} THEN count
    ELSE CountLoop(ShiftRight(xor), count + IF 0 \in xor THEN 1 ELSE 0)

\* lines 348-354
HammingLoop(a, b) == CountLoop(Xor(a, b), 0)

\* the bit positions the compared values are built from: low ones and the
\* two highest
HashBits == (0 .. (MaxHashBits - 3)) \cup {HASH_BITS - 2, HASH_BITS - 1}

\* 64-bit unsigned values: a few bits set, or all but a few
Hashes ==
    (SUBSET HashBits) \cup { (0 .. (HASH_BITS - 1)) \ s : s \in SUBSET HashBits }

InitHamming ==
    /\ pc = "hamming"
    /\ NoMatching
    /\ NoIngest
    /\ \E a \in Hashes : \E b \in Hashes : text = [a |-> a, b |-> b]
    /\ branding_terms = <<>>
    /\ out = None

\* both functions called on the two values, in both orders
ComputeSimhashSimilarity ==
    /\ pc = "hamming"
    /\ out = None
    /\ out' = [distance |-> HammingLoop(text.a, text.b),
               similarity |-> (HASH_BITS - HammingLoop(text.a, text.b)) * 100,
               reverse |-> (HASH_BITS - HammingLoop(text.b, text.a)) * 100]
    /\ UNCHANGED <<pc, matchingVars, ingestVars, text, branding_terms>>

NextHamming == ComputeSimhashSimilarity

SpecHamming == InitHamming /\ [][NextHamming]_vars

\* C19: for 64-bit unsigned a and b, hamming_distance(a, b) is the number of
\* differing bits, between 0 and 64, and compute_simhash_similarity(a, b) is
\* 1 - distance/64, lies in [0, 1], is the same in both orders, is 1.0
\* exactly when a = b and 0.0 exactly when b is the bitwise complement of a.
C19_Hamming ==
    (pc = "hamming" /\ out # None) =>
        LET a == text.a
            b == text.b
        IN  /\ out.distance = Cardinality({ i \in 0 .. (HASH_BITS - 1) : (i \in a) # (i \in b) })
            /\ out.distance \in 0 .. HASH_BITS
            /\ out.distance = hamming_distance(a, b)
            /\ out.similarity = compute_simhash_similarity(a, b)
            /\ out.similarity = Pct(100) - out.distance * 100
            /\ out.similarity \in 0 .. Pct(100)
            /\ out.reverse = out.similarity
            /\ (out.similarity = Pct(100)) <=> (a = b)
            /\ (out.similarity = 0) <=> (b = (0 .. (HASH_BITS - 1)) \ a)

\* the similarity of a value and its complement, neither of them 0, has been
\* computed
C19_Witness ==
    /\ pc = "hamming"
    /\ out # None
    /\ text.a # {}
    /\ text.b # {}
    /\ text.b = (0 .. (HASH_BITS - 1)) \ text.a
    /\ out.distance = HASH_BITS
    /\ out.similarity = 0

(***************************************************************************)
(* The candidate search over records with a file map                       *)
(***************************************************************************)

SrcMoved == <<"s", "r", "c", "/", "m", "o", "v", "e", "d", ".", "c">>

\* the queries: two source files, with or without per-file patch ids
FileQueries ==
    { [simhash64 |-> Low(0), patch_id |-> PatchP,
       files |-> [f \in {SrcA, SrcB} |-> [simhash64 |-> Low(0), patch_id |-> pid]]] :
      pid \in {None, PatchP} }

\* a file of a record: absent, or d bits away from the query's file, with or
\* without the query's patch id
FileKind(d, pid) == [f \in {1} |-> [simhash64 |-> Low(d), patch_id |-> pid]]
Absent == [f \in {} |-> None]

\* similarities 0.8125, 0.75 and 0.6875 for the first shared path, 0.75 and
\* 0.6875 for the second, a file the query does not name (the query's file,
\* renamed)
FileKindsA ==
    { Absent, FileKind(12, None), FileKind(16, None), FileKind(16, PatchP),
      FileKind(20, PatchP) }
FileKindsB == { Absent, FileKind(16, None), FileKind(20, PatchP) }
FileKindsMoved == { Absent, FileKind(0, None) }

\* the file map of a record
FileMap(a, b, m) ==
    LET paths == (IF a = Absent THEN {} ELSE {SrcA})
                 \cup (IF b = Absent THEN {} ELSE {SrcB})
                 \cup (IF m = Absent THEN {} ELSE {SrcMoved})
    IN  [f \in paths |-> IF f = SrcA THEN a[1] ELSE IF f = SrcB THEN b[1] ELSE m[1]]

\* the records: overall similarity 1.0, 0.75 or 0.6875, with or without the
\* query's patch id, and a file map that is not empty
FileMapKinds ==
    { [d |-> d, pid |-> pid, files |-> FileMap(a, b, m)] :
        d \in {0, 16, 20}, pid \in {None, PatchP},
        a \in FileKindsA, b \in FileKindsB, m \in FileKindsMoved }
    \ { k \in [d : {0, 16, 20}, pid : {None, PatchP}, files : {Absent}] : TRUE }

InitFileMap ==
    /\ pc = "filemap"
    /\ NoIngest
    /\ fingerprint \in FileQueries
    /\ date = None
    /\ ignore_date = FALSE
    /\ max_report = 1
    /\ diff_files = FALSE
    /\ \E n \in 0..MaxFileDb : \E kinds \in [1..n -> FileMapKinds] :
          /\ db = Databases(n, n,
                    LAMBDA i, isPr : Record(i, isPr, Noon, Low(kinds[i].d),
                                            kinds[i].pid, kinds[i].files))
          /\ deep = [i \in 1..n |-> [fails |-> TRUE, sim |-> 0]]
    /\ runs = NoRuns
    /\ l1 = NoL1
    /\ text = <<>>
    /\ branding_terms = <<>>
    /\ out = None

\* layer1_find_candidates on the PR database
Layer1FindFileMap ==
    /\ pc = "filemap"
    /\ l1["pr"] = None
    /\ l1' = [l1 EXCEPT !["pr"] =
                 [candidates |->
                     layer1_find_candidates(fingerprint, db["pr"], "pr", date, ignore_date)]]
    /\ UNCHANGED <<pc, inputVars, runs, textVars, ingestVars>>

NextFileMap == Layer1FindFileMap

SpecFileMap == InitFileMap /\ [][NextFileMap]_vars

\* the paths in both the query and the record, their similarity and whether
\* their patch ids are equal and not null
SharedPaths(entry) == DOMAIN fingerprint.files \cap DOMAIN entry.files
PathSim(entry, f) ==
    compute_simhash_similarity(fingerprint.files[f].simhash64, entry.files[f].simhash64)
PathPid(entry, f) ==
    /\ fingerprint.files[f].patch_id # None
    /\ fingerprint.files[f].patch_id = entry.files[f].patch_id
OverallSim(entry) == compute_simhash_similarity(fingerprint.simhash64, entry.simhash64)
OverallPid(entry) ==
    fingerprint.patch_id # None /\ fingerprint.patch_id = entry.patch_id

\* the shared paths recorded as matched files
RecordedPaths(entry) ==
    { f \in SharedPaths(entry) :
        \/ PathSim(entry, f) >= Pct(80)
        \/ PathSim(entry, f) >= Pct(70) /\ PathPid(entry, f) }

\* the admit rule over a set of paths
AdmitOver(entry, paths) ==
    LET best_sim == Max(OverallSim(entry), SetMax({ PathSim(entry, f) : f \in paths }))
        any_pid == OverallPid(entry) \/ \E f \in paths : PathPid(entry, f)
    IN  \/ best_sim >= Pct(80)
        \/ best_sim >= Pct(70) /\ any_pid
        \/ RecordedPaths(entry) # {}

Admitted(entry) ==
    \E i \in 1..Len(l1["pr"].candidates) : l1["pr"].candidates[i].key = entry.key

\* C20 as claimed: a record with a file map is admitted iff best_sim >= 0.80,
\* or best_sim >= 0.70 and any_pid, or a matched file was recorded, best_sim
\* and any_pid being taken over the overall fingerprint and every path
\* present in both the query and the record.
C20_AdmitOverShared ==
    (pc = "filemap" /\ l1["pr"] # None) =>
        \A i \in 1..Len(db["pr"]) :
            Admitted(db["pr"][i]) <=> AdmitOver(db["pr"][i], SharedPaths(db["pr"][i]))

\* C20 as amended: a record with a file map is admitted iff best_sim >= 0.80,
\* or best_sim >= 0.70 and any_pid, or a matched file was recorded, best_sim
\* and any_pid being taken over the overall fingerprint and the recorded
\* matched files only; a record whose overall simhash is the query's is
\* admitted whatever its paths are.
C20_AdmitOverRecorded ==
    (pc = "filemap" /\ l1["pr"] # None) =>
        \A i \in 1..Len(db["pr"]) :
            LET entry == db["pr"][i]
            IN  /\ Admitted(entry) <=> AdmitOver(entry, RecordedPaths(entry))
                /\ entry.simhash64 = fingerprint.simhash64 => Admitted(entry)

\* a record sharing no path with the query (its file is the query's,
\* renamed) has been admitted, and so has a record admitted for a recorded
\* file alone
C20_Witness ==
    /\ pc = "filemap"
    /\ l1["pr"] # None
    /\ \E i \in 1..Len(db["pr"]) :
          LET entry == db["pr"][i]
          IN  /\ Admitted(entry)
              /\ \/ SharedPaths(entry) = {} /\ SrcMoved \in DOMAIN entry.files
                 \/ /\ RecordedPaths(entry) # {}
                    /\ OverallSim(entry) < Pct(70)

(***************************************************************************)
(* check.py: the date cutoff of check_diff                                 *)
(***************************************************************************)

\* the written UTC offset
ZoneText(zone) ==
    CASE zone = "Z" -> <<"Z">>
      [] zone = "+00:00" -> <<"+", "0", "0", ":", "0", "0">>
      [] zone = "+02:00" -> <<"+", "0", "2", ":", "0", "0">>
      [] zone = "-05:00" -> <<"-", "0", "5", ":", "0", "0">>

\* the str of a timestamp as it was written
Written(ts) ==
    IF "bad" \in DOMAIN ts THEN ts.bad
    ELSE SubSeq(IsoZ(ts), 1, Len(IsoZ(ts)) - 1) \o ZoneText(ts.zone)

\* a text that is no timestamp
Bad(chars) == [bad |-> chars]

\* A line of a diff is the record [prefix, field, value]: its text is
\* <prefix><field>: <value>.  The prefix is empty for a line of the mailbox
\* prologue and "+", "-" or " " for a hunk line; the value of a Date field is
\* an RFC 2822 date (a timestamp record) or a text that is none.
\* line 7: re.findall(r"Date: (.*)", diff_text), a search that is not
\* anchored at the start of a line
RECURSIVE FindDates(_)
FindDates(lines) ==
    IF lines = <<>> THEN <<>>
    ELSE (IF Head(lines).field = "Date" THEN <<Head(lines).value>> ELSE <<>>)
         \o FindDates(Tail(lines))

\* lines 6-12
get_earliest_commit_date(lines) ==
    LET dates == FindDates(lines)
    IN  IF dates = <<>> THEN None
        ELSE IF \E i \in 1..Len(dates) : "bad" \in DOMAIN dates[i] THEN None
        ELSE LET first == CHOOSE i \in 1..Len(dates) :
                              \A j \in 1..Len(dates) : Instant(dates[i]) <= Instant(dates[j])
             IN  AsUtc(dates[first])

\* line 103: min() of two str, or the one that is set
EffectiveDate(earliest_date, pr_date) ==
    IF earliest_date # None /\ pr_date # None
    THEN IF StrGreater(Written(earliest_date), Written(pr_date))
         THEN pr_date ELSE earliest_date
    ELSE IF earliest_date # None THEN earliest_date ELSE pr_date

\* check.py lines 20 and 25-28 for one record: the search raises, skips the
\* record or compares its fingerprint
DateFilter(entry_date, d, ign) ==
    LET target_ts == TargetTs(d, ign)
        entry_ts == normalize_timestamp(entry_date)
    IN  IF target_ts = ValueError THEN "raised"
        ELSE IF target_ts = None THEN "kept"
        ELSE IF entry_ts = ValueError THEN "raised"
        ELSE IF entry_ts # None /\ TsGreater(entry_ts, target_ts) THEN "skipped"
        ELSE "kept"

\* the lines that can carry a date: Date headers of the prologue (13:00 UTC,
\* 17:00 UTC written -05:00, no date at all), another header, an added line
\* and a context line quoting a Date header of the day before, a line of code
DateLines ==
    { [prefix |-> "", field |-> "Date", value |-> Ts(10, 13, 0, "+00:00")],
      [prefix |-> "", field |-> "Date", value |-> Ts(10, 12, 0, "-05:00")],
      [prefix |-> "", field |-> "Date", value |-> Bad(<<"s", "o", "o", "n">>)],
      [prefix |-> "", field |-> "Subject", value |-> Bad(<<"f", "i", "x">>)],
      [prefix |-> "+", field |-> "Date", value |-> Ts(9, 13, 0, "+00:00")],
      [prefix |-> " ", field |-> "Date", value |-> Ts(9, 13, 0, "+00:00")],
      [prefix |-> "+", field |-> "x", value |-> Bad(<<"1">>)] }

\* the query timestamps: none, noon UTC, 12:00 and 11:00 UTC written with
\* offset +02:00, 14:00 UTC, and two texts that are no timestamp
QueryDates ==
    { None, Noon, Ts(10, 14, 0, "+02:00"), Ts(10, 13, 0, "+02:00"),
      Ts(10, 14, 0, "Z"), Bad(<<"T">>), Bad(<<"Z">>) }

\* the timestamps of a record: none, half a second after noon UTC, 18:00 UTC,
\* two texts that are no timestamp
EntryDates == { None, Ts(10, 12, 500000, "Z"), Ts(10, 18, 0, "Z"), Bad(<<"T">>), Bad(<<"Z">>) }

RECURSIVE SeqsUpTo(_, _)
SeqsUpTo(S, n) ==
    IF n = 0 THEN { <<>> }
    ELSE SeqsUpTo(S, n - 1)
         \cup { Append(q, x) : q \in { r \in SeqsUpTo(S, n - 1) : Len(r) = n - 1 }, x \in S }

InitCutoff ==
    /\ pc = "cutoff"
    /\ NoMatching
    /\ NoIngest
    /\ \E lines \in SeqsUpTo(DateLines, MaxDateLines) : \E pr_date \in QueryDates :
       \E ign \in BOOLEAN : \E entry_date \in EntryDates :
          text = [lines |-> lines, pr_date |-> pr_date, ignore_date |-> ign,
                  entry_date |-> entry_date]
    /\ branding_terms = <<>>
    /\ out = None

\* check_diff up to the date filter of the candidate search, for one record
CheckDiffCutoff ==
    /\ pc = "cutoff"
    /\ out = None
    /\ LET earliest_date == get_earliest_commit_date(text.lines)
           effective_date == EffectiveDate(earliest_date, text.pr_date)
       IN  out' = [earliest_date |-> earliest_date,
                   effective_date |-> effective_date,
                   target_ts |-> TargetTs(effective_date, text.ignore_date),
                   filter |-> DateFilter(text.entry_date, effective_date,
                                         text.ignore_date)]
    /\ UNCHANGED <<pc, matchingVars, ingestVars, text, branding_terms>>

NextCutoff == CheckDiffCutoff

SpecCutoff == InitCutoff /\ [][NextCutoff]_vars

\* every timestamp of the query can be parsed
Parseable(ts) == ts = None \/ "bad" \notin DOMAIN ts
DatesParseable ==
    /\ Parseable(text.pr_date)
    /\ \A i \in 1..Len(text.lines) :
          text.lines[i].field = "Date" => Parseable(text.lines[i].value)

\* C21: the cutoff handed to the candidate search is the earlier instant of
\* the earliest Date: header and the query timestamp when both are present,
\* written in UTC with a trailing "Z" whatever offsets they were written
\* with, the one that is present otherwise, and none with ignore_date.
C21_EffectiveCutoff ==
    (pc = "cutoff" /\ out # None /\ DatesParseable) =>
        LET earliest_date == out.earliest_date
            pr_date == text.pr_date
        IN  IF text.ignore_date THEN out.target_ts = None
            ELSE IF earliest_date # None /\ pr_date # None
            THEN /\ out.target_ts.zone = "Z"
                 /\ Instant(out.target_ts) = Min(Instant(earliest_date), Instant(pr_date))
            ELSE IF earliest_date # None THEN out.target_ts = AsUtc(earliest_date)
            ELSE IF pr_date # None THEN out.target_ts = AsUtc(pr_date)
            ELSE out.target_ts = None

\* the diff with the content of every hunk line replaced by a line of code
HunkBlanked(lines) ==
    [i \in 1..Len(lines) |->
        IF lines[i].prefix = "" THEN lines[i]
        ELSE [prefix |-> lines[i].prefix, field |-> "x", value |-> Bad(<<"1">>)]]

\* C22: the cutoff of check_diff depends only on the Date: headers of the
\* mailbox prologue and on the query timestamp: a diff gets the cutoff of the
\* diff that differs from it only in the content of its hunk lines.
C22_CutoffIgnoresHunks ==
    (pc = "cutoff" /\ out # None) =>
        out.target_ts =
            TargetTs(EffectiveDate(get_earliest_commit_date(HunkBlanked(text.lines)),
                                   text.pr_date),
                     text.ignore_date)

\* a timestamp the date filter has to read cannot be parsed: the query
\* timestamp, a Date: header of the prologue, or the timestamp of the record
\* when there is a cutoff to compare it with
UnparseableRead ==
    /\ ~ text.ignore_date
    /\ \/ ~ Parseable(text.pr_date)
       \/ \E i \in 1..Len(text.lines) :
             /\ text.lines[i].prefix = "" /\ text.lines[i].field = "Date"
             /\ ~ Parseable(text.lines[i].value)
       \/ ~ Parseable(text.entry_date) /\ out.effective_date # None

\* C30: whenever a record timestamp, the query timestamp or a Date: header
\* cannot be parsed, the query raises an error to the caller; the bad value
\* is never compared and the search never runs silently without a cutoff.
C30_BadTimestampFatal ==
    (pc = "cutoff" /\ out # None /\ UnparseableRead) => out.filter = "raised"

(***************************************************************************)
(* check.py check_diff: the triviality gates                               *)
(***************************************************************************)

MIN_TOKENS == 5
MIN_LINES == 5

\* str.splitlines() of a text whose lines end with "\n"
SplitLines(s) ==
    LET ls == Split(s)
    IN  IF ls[Len(ls)] = <<>> THEN SubSeq(ls, 1, Len(ls) - 1) ELSE ls

\* common.py lines 213-214
FileName(line) ==
    LET n == Find(line, <<" ", "b", "/">>, 1)
    IN  IF n = 0 THEN <<"u", "n", "k", "n", "o", "w", "n">> ELSE Drop(line, n + 2)

\* common.py line 217
IsPrologueLine(line) ==
    \/ \E p \in { <<"F", "r", "o", "m", " ">>, <<"F", "r", "o", "m", ":", " ">>, <<"D", "a", "t", "e", ":", " ">>, <<"S", "u", "b", "j", "e", "c", "t", ":", " ">>, <<"S", "i", "g", "n", "e", "d", "-", "o", "f", "f", "-", "b", "y", ":", " ">>,
                  <<"C", "o", "-", "a", "u", "t", "h", "o", "r", "e", "d", "-", "b", "y", ":", " ">> } : StartsWith(line, p)
    \/ line = <<"-", "-", "-">>

\* common.py lines 212 and 220
Flush(dict, current_file, current_lines) ==
    IF current_file # None /\ current_file.name # <<>> /\ current_lines # <<>>
    THEN Upsert(dict, current_file.name, Join(<<"\n">>, current_lines))
    ELSE dict

\* common.py lines 210-221
RECURSIVE SplitLoop(_, _, _, _)
SplitLoop(lines, dict, current_file, current_lines) ==
    IF lines = <<>> THEN Flush(dict, current_file, current_lines)
    ELSE LET line == Head(lines)
         IN  IF StartsWith(line, <<"d", "i", "f", "f", " ", "-", "-", "g", "i", "t">>)
             THEN SplitLoop(Tail(lines), Flush(dict, current_file, current_lines),
                            [name |-> FileName(line)], <<line>>)
             ELSE IF current_file # None /\ current_file.name # <<>>
                     /\ ~ IsPrologueLine(line)
             THEN SplitLoop(Tail(lines), dict, current_file, Append(current_lines, line))
             ELSE SplitLoop(Tail(lines), dict, current_file, current_lines)

split_diff_by_file(diff_text) == SplitLoop(SplitLines(diff_text), <<>>, None, <<>>)

\* common.py lines 385-390
count_diff_lines(diff_text) ==
    LET lines == Split(diff_text)
    IN  Cardinality({ k \in 1..Len(lines) :
            \/ StartsWith(lines[k], <<"+">>) /\ ~ StartsWith(lines[k], <<"+", "+", "+">>)
            \/ StartsWith(lines[k], <<"-">>) /\ ~ StartsWith(lines[k], <<"-", "-", "-">>) })

RECURSIVE SumOver(_, _)
SumOver(dict, keys) ==
    IF keys = {} THEN 0
    ELSE LET k == CHOOSE x \in keys : TRUE
         IN  count_diff_lines(dict[k]) + SumOver(dict, keys \ {k})

\* str.strip() of a text of several lines
IsBlank(s) == \A i \in 1..Len(s) : IsSpace(s[i]) \/ s[i] = "\n"

\* a gate with the line floor left out
GateWithoutLines(diff_text, terms) ==
    IF IsBlank(diff_text) THEN "blank"
    ELSE LET filtered == filter_branding_changes(diff_text)
             norm_all == normalize_diff(filtered, terms, None)
         IN  IF norm_all = <<>> \/ Len(Words(norm_all, <<>>)) < MIN_TOKENS THEN "tokens"
             ELSE IF detect_code_movement(filtered).is_trivial THEN "trivial"
             ELSE "search"

\* check.py lines 98-112: the return that ends check_diff early, or "search"
Gate(diff_text, terms) ==
    IF IsBlank(diff_text) THEN "blank"
    ELSE LET filtered == filter_branding_changes(diff_text)
             norm_all == normalize_diff(filtered, terms, None)
             slices == split_diff_by_file(filtered)
         IN  IF norm_all = <<>> \/ Len(Words(norm_all, <<>>)) < MIN_TOKENS THEN "tokens"
             ELSE IF SumOver(slices, DOMAIN slices) < MIN_LINES THEN "lines"
             ELSE IF detect_code_movement(filtered).is_trivial THEN "trivial"
             ELSE "search"

\* check.py lines 97-133; pr_matches and commit_matches are the matches
\* find_matches returns for each database when it is called
check_diff(diff_text, terms, pr_matches, commit_matches) ==
    IF Gate(diff_text, terms) # "search"
    THEN [found |-> FALSE, findings |-> <<>>, searched |-> {}]
    ELSE LET findings == [i \in 1..pr_matches |-> "pr"]
                         \o [i \in 1..commit_matches |-> "commit"]
         IN  [found |-> findings # <<>>, findings |-> findings,
              searched |-> {"pr", "commit"}]

\* the diffs: with or without the header of a file, a branding change, lines
\* removed, and lines added that are code (four tokens each), comments or
\* empty
GateHeader == << <<"d", "i", "f", "f", " ", "-", "-", "g", "i", "t", " ", "a", "/", "s", "r", "c", "/", "a", ".", "c", " ", "b", "/", "s", "r", "c", "/", "a", ".", "c">>, <<"-", "-", "-", " ", "a", "/", "s", "r", "c", "/", "a", ".", "c">>, <<"+", "+", "+", " ", "b", "/", "s", "r", "c", "/", "a", ".", "c">> >>
GateBranding == << <<"-", "R", "e", "d", "i", "s", " ", "a">>, <<"+", "V", "a", "l", "k", "e", "y", " ", "a">> >>
AddedLines(style, k) ==
    [i \in 1..k |->
        CASE style = "code" -> <<"+", "n">> \o Digits(i, 2) \o <<" ", "=", " ", "5", ";">>
          [] style = "comment" -> <<"+", "/", "/", " ", "n">> \o Digits(i, 2)
          [] style = "empty" -> <<"+", " ">>]
GateDiff(header, branding, removed, style, added) ==
    Join(<<"\n">>,
         (IF header THEN GateHeader ELSE <<>>)
         \o (IF branding THEN GateBranding ELSE <<>>)
         \o NumberedLines(<<"-">>, <<"g">>, removed)
         \o AddedLines(style, added))

InitGate ==
    /\ pc = "gate"
    /\ NoMatching
    /\ NoIngest
    /\ \E header \in BOOLEAN, branding \in BOOLEAN, removed \in 0..1,
          style \in {"code", "comment", "empty"}, added \in 0..MaxGateLines,
          pr_matches \in 0..1, commit_matches \in 0..1 :
          text = [diff |-> GateDiff(header, branding, removed, style, added),
                  header |-> header, branding |-> branding, removed |-> removed,
                  style |-> style, added |-> added,
                  pr_matches |-> pr_matches, commit_matches |-> commit_matches]
    /\ branding_terms = <<Lower(Redis), Lower(Valkey), Lower(KeyDB)>>
    /\ out = None

CheckDiffGate ==
    /\ pc = "gate"
    /\ out = None
    /\ out' = check_diff(text.diff, branding_terms, text.pr_matches, text.commit_matches)
    /\ UNCHANGED <<pc, matchingVars, ingestVars, text, branding_terms>>

NextGate == CheckDiffGate

SpecGate == InitGate /\ [][NextGate]_vars

\* what the gates look at, counted on the diff as it was built: the branding
\* change is filtered out, a line of code has four tokens and a removed line
\* one, the lines count only under the header of a file
GateTokens ==
    text.removed + (IF text.style = "code" THEN 4 * text.added ELSE 0)
GateLines ==
    IF text.header THEN text.removed + text.added ELSE 0
GateTrivial ==
    (IF text.style = "code" THEN text.added ELSE 0) - text.removed < MIN_NET_NEW_LINES

\* C23: check_diff returns (False, []) and searches no database when the
\* filtered diff is blank, has fewer than MIN_TOKENS tokens, fewer than
\* MIN_LINES added and removed lines over its per-file slices, or is trivial
\* for the code-movement detector; and its verdict is true exactly when its
\* findings are not empty.
C23_Gates ==
    (pc = "gate" /\ out # None) =>
        /\ (GateTokens < MIN_TOKENS \/ GateLines < MIN_LINES \/ GateTrivial)
              => (~ out.found /\ out.findings = <<>> /\ out.searched = {})
        /\ out.found <=> (out.findings # <<>>)
        /\ out.searched = {}
              => (GateTokens < MIN_TOKENS \/ GateLines < MIN_LINES \/ GateTrivial)

\* a diff with tokens enough and no trivial movement has been rejected for
\* its lines alone, its added lines being under no file
C23_Witness ==
    /\ pc = "gate"
    /\ out # None
    /\ ~ text.header
    /\ text.style = "code"
    /\ text.added = MaxGateLines
    /\ text.removed = 0
    /\ text.pr_matches = 1
    /\ out.searched = {}
    /\ ~ out.found


(***************************************************************************)
(* The diff normalizer and the context lines                               *)
(***************************************************************************)

\* a diff with one context line, k added lines and the removed lines, with
\* or without the '---'/'+++' header lines of its file
ContextDiff(header, k, removed) ==
    Join(<<"\n">>,
         (IF header THEN << <<"-", "-", "-", " ", "a", "/", "s", "r", "c", "/", "a", ".", "c">>, <<"+", "+", "+", " ", "b", "/", "s", "r", "c", "/", "a", ".", "c">> >> ELSE <<>>)
         \o NumberedLines(<<"-">>, <<"g">>, removed)
         \o << <<" ", "c", "t", "x", " ", "=", " ", "1", ";">> >>
         \o AddedLines("code", k))

InitContext ==
    /\ pc = "context"
    /\ NoMatching
    /\ NoIngest
    /\ \E header \in BOOLEAN, k \in 0..MaxChangeLines, removed \in 0..1,
          include_context \in {None, [value |-> TRUE], [value |-> FALSE]} :
          text = [diff |-> ContextDiff(header, k, removed), header |-> header,
                  changes |-> k + removed,
                  include_context |-> include_context]
    /\ branding_terms = <<Lower(Redis), Lower(Valkey), Lower(KeyDB)>>
    /\ out = None

NormalizeWithContext ==
    /\ pc = "context"
    /\ out = None
    /\ out' = [value |-> normalize_diff(text.diff, branding_terms, text.include_context)]
    /\ UNCHANGED <<pc, matchingVars, ingestVars, text, branding_terms>>

NextContext == NormalizeWithContext

SpecContext == InitContext /\ [][NextContext]_vars

\* the context line is in the output
ContextIncluded == Contains(out.value, <<"c", "t", "x">>)

\* C24: without an override normalize_diff includes the context lines iff the
\* diff has between 1 and 5 change lines, the '---'/'+++' header lines not
\* counted; with include_context True or False the override decides.
C24_ContextHeuristic ==
    (pc = "context" /\ out # None) =>
        ContextIncluded <=>
            IF text.include_context # None THEN text.include_context.value
            ELSE text.changes >= 1 /\ text.changes <= 5

(***************************************************************************)
(* The infix rule of the identifier normalizer                             *)
(***************************************************************************)

\* what an identifier that starts with no branding term begins with
Leads == { <<"c">>, <<"g", "e", "t">> }

InfixIdentifiers == { l \o s : l \in Leads, s \in Suffixes }

InitInfix ==
    /\ pc = "infix"
    /\ NoMatching
    /\ NoIngest
    /\ text \in InfixIdentifiers
    /\ branding_terms \in Orders(BrandingTerms)
    /\ out = None

\* normalize_identifier on an identifier that starts with no branding term
NormalizeInfix ==
    /\ pc = "infix"
    /\ out = None
    /\ out' = [value |-> normalize_identifier(text, branding_terms)]
    /\ UNCHANGED <<pc, matchingVars, ingestVars, text, branding_terms>>

NextInfix == NormalizeInfix

SpecInfix == InitInfix /\ [][NextInfix]_vars

\* the 0-based positions i > 0 where the term stands between its boundaries,
\* the position where the term ends the identifier included
Occurrences(identifier, term) ==
    { i \in 1..(Len(identifier) - Len(term)) : InfixAt(identifier, term, i) }

FirstOccurrence(identifier, term) ==
    CHOOSE i \in Occurrences(identifier, term) :
        \A j \in Occurrences(identifier, term) : i <= j

\* C25: an identifier that matches no prefix pair, no Brand + "Module" and no
\* leading term loses the first occurrence of one branding term that stands
\* at a position i > 0 after a "_" or with an uppercase first character and
\* before a "_", an uppercase character or the end of the identifier (a
\* trailing term included), the "__" left at the joint collapsing to "_";
\* an identifier with no such occurrence is returned as it is.
C25_InfixRule ==
    (pc = "infix" /\ out # None) =>
        LET found == { t \in BrandingTerms : Occurrences(text, t) # {} }
        IN  IF found = {} THEN out.value = text
            ELSE \E t \in found :
                    out.value = InfixRemoved(text, t, FirstOccurrence(text, t))

(***************************************************************************)
(* Properties of a run of refresh_prs                                      *)
(***************************************************************************)

\* the PRs of a page updated after since_ts, in order
RECURSIVE UpdatedAfter(_, _)
UpdatedAfter(seq, since_ts) ==
    IF seq = <<>> THEN <<>>
    ELSE (IF TsGreater(normalize_timestamp(seq[1].updated_at), since_ts)
          THEN <<seq[1]>> ELSE <<>>) \o UpdatedAfter(Tail(seq), since_ts)

\* C26: fetch_pr_list called with a cutoff returns exactly the PRs of the
\* page whose updated_at is later than the cutoff, and stop is true iff a PR
\* of the page was filtered out or the page is empty.
C26_FetchByUpdateTime ==
    (pc = "refresh" /\ run.at = "pr" /\ run.i = 1) =>
        LET listed == HostPage(run.state, run.page, PER_PAGE)
            expected == UpdatedAfter(listed, run.since_created)
        IN  /\ run.pr_list = expected
            /\ run.stop <=> (Len(expected) < Len(listed) \/ listed = <<>>)

\* the number of records upserted so far in the current run
Upserted(dict) ==
    Cardinality({ k \in DOMAIN dict : k \notin DOMAIN loaded \/ dict[k] # loaded[k] })

\* C27: with a writable database file, a checkpoint write happens after an
\* upsert exactly when it is the 10th, 20th, 30th, ... upsert of the current
\* run, whatever number of records the database held at the start.
C27_CheckpointEveryTenth ==
    [][(prs' # prs /\ host.disk_ok) =>
          ((written' # written) <=> (Upserted(prs') % CHECKPOINT_INTERVAL = 0))]_vars

\* a step of the run that opens the database file for writing
WriteAttempted ==
    \/ run.at = "write"
    \/ /\ run.at = "pr"
       /\ prs' # prs
       /\ Cardinality(DOMAIN prs') % CHECKPOINT_INTERVAL = 0

\* C28: a write of the database file that fails, at a checkpoint or at the
\* final save, aborts the run with an error raised to the caller.
C28_WriteFailureFatal ==
    [][(pc = "refresh" /\ WriteAttempted /\ ~ host.disk_ok) => run'.at = "raised"]_vars

(***************************************************************************)
(* Rate limits and client errors in github_request                         *)
(***************************************************************************)

\* the k-th answer of the host is a 403 that carries X-RateLimit-Reset
RateLimited(k) ==
    /\ host.responses[k].kind = "HTTPError"
    /\ host.responses[k].code = 403
    /\ host.responses[k].reset_in # None

\* the k-th answer is a 403 without the header or another 4xx
ClientError(k) ==
    /\ host.responses[k].kind = "HTTPError"
    /\ host.responses[k].code >= 400 /\ host.responses[k].code < 500
    /\ ~ RateLimited(k)

\* the k-th answer ended the call with an error: no sleep after it and no
\* request after it
RaisedAt(k) ==
    /\ run.at = "raised"
    /\ run.requests = k
    /\ Len(run.sleeps) = k - 1

\* C29: after a 403 carrying X-RateLimit-Reset github_request sleeps at most
\* 300 s before the next attempt; when the reset lies more than 600 s in the
\* future it raises without sleeping and without another request; the waits
\* for the rate limit use up the same attempts as the other retries; a 403
\* without the header or any other 4xx is raised at once.
C29_RateLimit ==
    pc = "request" =>
        /\ run.requests <= host.retry
        /\ \A k \in 1..run.requests :
              /\ (RateLimited(k) /\ k <= Len(run.sleeps)) =>
                    /\ run.sleeps[k] <= RATE_LIMIT_MAX_WAIT
                    /\ run.sleeps[k] >= 1
                    /\ host.responses[k].reset_in.value < RATE_LIMIT_MAX_WAIT
                          => run.sleeps[k] = host.responses[k].reset_in.value + 1
              /\ (RateLimited(k) /\ host.responses[k].reset_in.value > RATE_LIMIT_REFUSE) =>
                    RaisedAt(k) /\ run.error = "RuntimeError"
              /\ ClientError(k) => RaisedAt(k) /\ run.error = "HTTPError"
        /\ (run.at = "raised" /\ \A k \in 1..host.retry : RateLimited(k) /\ k <= Len(run.sleeps))
              => run.requests = host.retry /\ run.error = "RuntimeError"

\* a rate-limited attempt was followed by a capped wait, and the next answer,
\* with a reset more than 600 s away, ended the call without a sleep
C29_Witness ==
    /\ pc = "request"
    /\ run.at = "raised"
    /\ run.requests = 2
    /\ RateLimited(1) /\ host.responses[1].reset_in.value = 350
    /\ run.sleeps = <<RATE_LIMIT_MAX_WAIT>>
    /\ RateLimited(2) /\ host.responses[2].reset_in.value = 601
    /\ run.error = "RuntimeError"

====
